---------------------------- MODULE Spec2Model ----------------------------
(***************************************************************************)
(* Model of tools/server_config_manager.py: a manager holds the document   *)
(* parsed from the YAML file (self.config) and answers queries on it:      *)
(* get_environments, get_servers, get_server_config, validate_config;      *)
(* save_config writes a document to the file, after a backup of the file.  *)
(*                                                                         *)
(* The module also holds the script of that file (its command line), the  *)
(* MCPServer of examples/mcp_server_example.py and the switch of           *)
(* environment files of dev/tools/env_manager.py, each with a              *)
(* specification of its own: Spec (the queries), FileSpec (construction    *)
(* and save_config on the file), CliSpec, ServerSpec and EnvSpec.  Further *)
(* specifications follow the commit of tools/git_automation.py (GitSpec),  *)
(* two instances saving at the same time (WritersSpec), the main() of the  *)
(* server example (LaunchSpec), dev/tools/web_scraper.py (ScrapeSpec) and  *)
(* a save followed by a load of the YAML text (RoundTripSpec).             *)
(*                                                                         *)
(* Python objects are records [kind, v] so that a value of any kind can    *)
(* stand where the code expects a mapping or a number, and the exception   *)
(* Python raises there is part of the model.                               *)
(***************************************************************************)
EXTENDS Integers, Sequences, FiniteSets, TLC

VARIABLES
    config,     \* self.config: the document loaded at construction
    result,     \* the outcome of the last call on the manager
    files,      \* the content of the configuration file and of its backup
    save,       \* the save_config call: its arguments and how far it has come
    server,     \* the MCPServer of examples/mcp_server_example.py
    env_dir,    \* the working directory of dev/tools/env_manager.py
    env_call,   \* the last call of switch_environment
    git,        \* the last call of tools/git_automation.py
    writers,    \* the save_config calls of two instances on one path
    launch,     \* the run of main() of examples/mcp_server_example.py
    scrape,     \* the scrape_urls call of dev/tools/web_scraper.py
    fresh       \* a manager constructed on the path after a save

vars == <<config, result, files, save, server, env_dir, env_call, git, writers, launch, scrape, fresh>>

\* The variables of each program, which the actions of the others leave alone
managerVars == <<config, result, files, save>>
serverVars == <<server>>
envVars == <<env_dir, env_call>>
gitVars == <<git>>
writerVars == <<writers>>
launchVars == <<launch>>
scrapeVars == <<scrape>>
freshVars == <<fresh>>
notManager == <<serverVars, envVars, gitVars, writerVars, launchVars, scrapeVars, freshVars>>
notServer == <<managerVars, envVars, gitVars, writerVars, launchVars, scrapeVars, freshVars>>
notEnv == <<managerVars, serverVars, gitVars, writerVars, launchVars, scrapeVars, freshVars>>
notGit == <<managerVars, serverVars, envVars, writerVars, launchVars, scrapeVars, freshVars>>
notWriter == <<config, result, save, serverVars, envVars, gitVars, launchVars, scrapeVars, freshVars>>
notLaunch == <<managerVars, envVars, gitVars, writerVars, scrapeVars, freshVars>>
notScrape == <<managerVars, serverVars, envVars, gitVars, writerVars, launchVars, freshVars>>
notFresh == <<serverVars, envVars, gitVars, writerVars, launchVars, scrapeVars>>

---------------------------------------------------------------------------
(* Python values *)

EmptyMap == [k \in {} |-> 0]

PyNone == [kind |-> "none", v |-> 0]
PyInt(n) == [kind |-> "int", v |-> n]
PyBool(b) == [kind |-> "bool", v |-> b]
PyStr(x) == [kind |-> "str", v |-> x]
PyList(q) == [kind |-> "list", v |-> q]
PyDict(f) == [kind |-> "dict", v |-> f]

\* bool is a subclass of int: True is 1 and False is 0 in a comparison
IsNumber(x) == x.kind \in {"int", "bool"}
Number(x) == IF x.kind = "bool" THEN (IF x.v THEN 1 ELSE 0) ELSE x.v

\* bool(x)
Truthy(x) ==
    CASE x.kind = "none" -> FALSE
      [] x.kind = "int" -> x.v # 0
      [] x.kind = "bool" -> x.v
      [] x.kind = "str" -> x.v # ""
      [] x.kind = "list" -> x.v # <<>>
      [] x.kind = "dict" -> DOMAIN x.v # {}

\* str(x) as an f-string formats it (scalars only)
Format(x) ==
    CASE x.kind = "none" -> "None"
      [] x.kind = "int" -> ToString(x.v)
      [] x.kind = "bool" -> IF x.v THEN "True" ELSE "False"
      [] x.kind = "str" -> x.v
      [] OTHER -> "<object>"

\* The outcome of an expression: a value, or the exception it raised
Return(v) == [exc |-> "", msg |-> "", val |-> v]
Raise(e, text) == [exc |-> e, msg |-> text, val |-> PyNone]

\* obj.get(key, dflt)
DictGet(obj, key, dflt) ==
    IF obj.kind # "dict"
    THEN Raise("AttributeError", "object has no attribute 'get'")
    ELSE Return(IF key \in DOMAIN obj.v THEN obj.v[key] ELSE dflt)


\* list(d.keys()): the keys in some order (callers only test membership)
RECURSIVE SetToSeq(_)
SetToSeq(S) ==
    IF S = {} THEN <<>>
    ELSE LET x == CHOOSE y \in S : TRUE IN <<x>> \o SetToSeq(S \ {x})

InSeq(x, q) == \E n \in DOMAIN q : q[n] = x

---------------------------------------------------------------------------
(* ServerConfigManager *)

\* get_environments: list(self.config.get('environments', {}).keys())
get_environments(cfg) ==
    LET e == DictGet(cfg, "environments", PyDict(EmptyMap)) IN
    IF e.exc # "" THEN e
    ELSE IF e.val.kind # "dict"
    THEN Raise("AttributeError", "object has no attribute 'keys'")
    ELSE Return(PyList(SetToSeq(DOMAIN e.val.v)))

EnvironmentNotFound(environment) ==
    "Environment '" \o environment \o "' not found in configuration"

\* get_servers without its test of the environment name
get_servers_unchecked(cfg, environment) ==
    LET envs == get_environments(cfg) IN
    IF envs.exc # "" THEN envs
    ELSE LET all == DictGet(cfg, "environments", PyDict(EmptyMap))
             env == DictGet(all.val, environment, PyDict(EmptyMap))
         IN  DictGet(env.val, "servers", PyDict(EmptyMap))

\* get_servers applying the default options to each server it returns
get_servers_with_defaults(cfg, environment) ==
    LET envs == get_environments(cfg) IN
    IF envs.exc # "" THEN envs
    ELSE IF ~InSeq(environment, envs.val.v)
    THEN Raise("ValueError", EnvironmentNotFound(environment))
    ELSE LET all == DictGet(cfg, "environments", PyDict(EmptyMap))
             env == DictGet(all.val, environment, PyDict(EmptyMap))
             servers == DictGet(env.val, "servers", PyDict(EmptyMap))
             default == DictGet(cfg, "default", PyDict(EmptyMap))
             Overlaid(o) ==
                IF o.kind # "dict" \/ default.val.kind # "dict" THEN o
                ELSE PyDict([k \in DOMAIN default.val.v \cup DOMAIN o.v |->
                                IF k \in DOMAIN o.v THEN o.v[k] ELSE default.val.v[k]])
         IN  IF servers.exc # "" \/ servers.val.kind # "dict" THEN servers
             ELSE Return(PyDict([n \in DOMAIN servers.val.v |->
                                    Overlaid(servers.val.v[n])]))

\* get_servers: the environment's 'servers' value as it stands in the document
get_servers(cfg, environment) ==
    LET envs == get_environments(cfg) IN
    IF envs.exc # "" THEN envs
    ELSE IF ~InSeq(environment, envs.val.v)
    THEN Raise("ValueError", EnvironmentNotFound(environment))
    ELSE LET all == DictGet(cfg, "environments", PyDict(EmptyMap))
             env == DictGet(all.val, environment, PyDict(EmptyMap))
         IN  DictGet(env.val, "servers", PyDict(EmptyMap))

ServerNotFound(server_name, environment) ==
    "Server '" \o server_name \o "' not found in environment '" \o environment \o "'"

\* {**server_config, **default_config}: the default wins
MergeDefaultWins(default_config, server_config) ==
    IF default_config.kind # "dict" \/ server_config.kind # "dict"
    THEN Raise("TypeError", "object is not a mapping")
    ELSE Return(PyDict(
            [k \in DOMAIN default_config.v \cup DOMAIN server_config.v |->
                IF k \in DOMAIN default_config.v
                THEN default_config.v[k]
                ELSE server_config.v[k]]))

\* The overlay, with the server's middleware appended to the default's
MergeMiddlewareAppended(default_config, server_config) ==
    IF default_config.kind # "dict" \/ server_config.kind # "dict"
    THEN Raise("TypeError", "object is not a mapping")
    ELSE Return(PyDict(
            [k \in DOMAIN default_config.v \cup DOMAIN server_config.v |->
                IF k = "middleware" /\ k \in DOMAIN default_config.v
                                    /\ k \in DOMAIN server_config.v
                THEN PyList(default_config.v[k].v \o server_config.v[k].v)
                ELSE IF k \in DOMAIN server_config.v
                THEN server_config.v[k]
                ELSE default_config.v[k]]))

\* {**default_config, **server_config}
Merge(default_config, server_config) ==
    IF default_config.kind # "dict" \/ server_config.kind # "dict"
    THEN Raise("TypeError", "object is not a mapping")
    ELSE Return(PyDict(
            [k \in DOMAIN default_config.v \cup DOMAIN server_config.v |->
                IF k \in DOMAIN server_config.v
                THEN server_config.v[k]
                ELSE default_config.v[k]]))

\* get_server_config: the default options overlaid with the server's own.
\* `server_name not in servers` raises on a value that is no container (None
\* in the documents drawn here)
get_server_config(cfg, environment, server_name) ==
    LET servers == get_servers(cfg, environment) IN
    IF servers.exc # "" THEN servers
    ELSE IF servers.val.kind # "dict"
    THEN Raise("TypeError", "argument is not iterable")
    ELSE IF server_name \notin DOMAIN servers.val.v
    THEN Raise("ValueError", ServerNotFound(server_name, environment))
    ELSE LET default_config == DictGet(cfg, "default", PyDict(EmptyMap)) IN
         Merge(default_config.val, servers.val.v[server_name])

MaxPort == 65535

\* The required fields, `timeout` forgotten
required_fields_short == <<"host", "port", "workers">>

required_fields == <<"host", "port", "workers", "timeout">>

\* config.get(key): the value, or None when the key is absent
OptionGet(c, key) == IF key \in DOMAIN c THEN c[key] ELSE PyNone

\* for field in required_fields: if field not in config: errors.append(...)
MissingErrors(c) ==
    LET absent == SelectSeq(required_fields, LAMBDA field : field \notin DOMAIN c)
    IN  [n \in 1..Len(absent) |-> "Missing required field: " \o absent[n]]

\* The SSL rule with its two tests in the other order
SslErrorsKeyFirst(c) ==
    IF Truthy(IF "ssl_enabled" \in DOMAIN c THEN c["ssl_enabled"] ELSE PyBool(FALSE))
    THEN (IF "ssl_key" \notin DOMAIN c
          THEN <<"SSL enabled but ssl_key not specified">> ELSE <<>>)
         \o
         (IF "ssl_cert" \notin DOMAIN c
          THEN <<"SSL enabled but ssl_cert not specified">> ELSE <<>>)
    ELSE <<>>

\* The SSL rule with `elif` for the key: a missing key is reported only when
\* the certificate is there
SslErrorsElif(c) ==
    IF Truthy(IF "ssl_enabled" \in DOMAIN c THEN c["ssl_enabled"] ELSE PyBool(FALSE))
    THEN IF "ssl_cert" \notin DOMAIN c
         THEN <<"SSL enabled but ssl_cert not specified">>
         ELSE IF "ssl_key" \notin DOMAIN c
         THEN <<"SSL enabled but ssl_key not specified">>
         ELSE <<>>
    ELSE <<>>

\* if config.get('ssl_enabled', False): ssl_cert and ssl_key must be there
SslErrors(c) ==
    IF Truthy(IF "ssl_enabled" \in DOMAIN c THEN c["ssl_enabled"] ELSE PyBool(FALSE))
    THEN (IF "ssl_cert" \notin DOMAIN c
          THEN <<"SSL enabled but ssl_cert not specified">> ELSE <<>>)
         \o
         (IF "ssl_key" \notin DOMAIN c
          THEN <<"SSL enabled but ssl_key not specified">> ELSE <<>>)
    ELSE <<>>

\* port is not None and (port < 1 or port >= 65535)
PortErrorsExclusive(c) ==
    LET port == OptionGet(c, "port") IN
    IF port.kind = "none" THEN Return(PyList(<<>>))
    ELSE IF ~IsNumber(port) THEN Raise("TypeError", "'<' not supported")
    ELSE IF Number(port) < 1 \/ Number(port) >= MaxPort
    THEN Return(PyList(<<"Invalid port number: " \o Format(port)>>))
    ELSE Return(PyList(<<>>))

\* The port rule without the test for None: a port left out is invalid too
PortErrorsOfNone(c) ==
    LET port == OptionGet(c, "port") IN
    IF port.kind = "none"
    THEN Return(PyList(<<"Invalid port number: " \o Format(port)>>))
    ELSE IF ~IsNumber(port) THEN Raise("TypeError", "'<' not supported")
    ELSE IF Number(port) < 1 \/ Number(port) > MaxPort
    THEN Return(PyList(<<"Invalid port number: " \o Format(port)>>))
    ELSE Return(PyList(<<>>))

\* port is not None and (port < 1 or port > 65535)
PortErrors(c) ==
    LET port == OptionGet(c, "port") IN
    IF port.kind = "none" THEN Return(PyList(<<>>))
    ELSE IF ~IsNumber(port) THEN Raise("TypeError", "'<' not supported")
    ELSE IF Number(port) < 1 \/ Number(port) > MaxPort
    THEN Return(PyList(<<"Invalid port number: " \o Format(port)>>))
    ELSE Return(PyList(<<>>))

\* workers is not None and workers < 0
WorkersErrorsNegative(c) ==
    LET workers == OptionGet(c, "workers") IN
    IF workers.kind = "none" THEN Return(PyList(<<>>))
    ELSE IF ~IsNumber(workers) THEN Raise("TypeError", "'<' not supported")
    ELSE IF Number(workers) < 0
    THEN Return(PyList(<<"Invalid number of workers: " \o Format(workers)>>))
    ELSE Return(PyList(<<>>))

\* workers is not None and workers < 1
WorkersErrors(c) ==
    LET workers == OptionGet(c, "workers") IN
    IF workers.kind = "none" THEN Return(PyList(<<>>))
    ELSE IF ~IsNumber(workers) THEN Raise("TypeError", "'<' not supported")
    ELSE IF Number(workers) < 1
    THEN Return(PyList(<<"Invalid number of workers: " \o Format(workers)>>))
    ELSE Return(PyList(<<>>))

\* timeout is not None and timeout < 1
TimeoutErrors(c) ==
    LET timeout == OptionGet(c, "timeout") IN
    IF timeout.kind = "none" THEN Return(PyList(<<>>))
    ELSE IF ~IsNumber(timeout) THEN Raise("TypeError", "'<' not supported")
    ELSE IF Number(timeout) < 1
    THEN Return(PyList(<<"Invalid timeout: " \o Format(timeout)>>))
    ELSE Return(PyList(<<>>))

\* The body of the try block once the config is resolved: the rules in turn,
\* the first comparison that raises ending the call
ErrorList(c) ==
    LET port == PortErrors(c)
        workers == WorkersErrors(c)
        timeout == TimeoutErrors(c)
    IN  IF port.exc # "" THEN port
        ELSE IF workers.exc # "" THEN workers
        ELSE IF timeout.exc # "" THEN timeout
        ELSE Return(PyList(MissingErrors(c) \o SslErrors(c)
                           \o port.val.v \o workers.val.v \o timeout.val.v))

\* validate_config with no except clause: the lookup error reaches the caller
validate_config_uncaught(cfg, environment, server_name) ==
    LET looked == get_server_config(cfg, environment, server_name) IN
    IF looked.exc # "" THEN looked
    ELSE ErrorList(looked.val.v)

\* validate_config: the error list; only a ValueError of the lookup is caught
validate_config(cfg, environment, server_name) ==
    LET looked == get_server_config(cfg, environment, server_name) IN
    IF looked.exc = "ValueError" THEN Return(PyList(<<looked.msg>>))
    ELSE IF looked.exc # "" THEN looked
    ELSE ErrorList(looked.val.v)

---------------------------------------------------------------------------
(* The documents a manager may have loaded *)

MaxOptions == 4             \* options a document sets, in its two sections together
MaxOverrideOptions == 1     \* options among them in the server's section

Options == {"host", "port", "workers", "timeout",
            "ssl_enabled", "ssl_cert", "ssl_key", "middleware"}

\* The values an option takes in the documents drawn: numbers at and around
\* the limits the validation tests, and values of another kind
OptionValues(option) ==
    CASE option = "host" -> {PyStr("localhost")}
      [] option = "port" ->
            {PyInt(0), PyInt(1), PyInt(MaxPort), PyInt(MaxPort + 1), PyStr("8080")}
      [] option = "workers" -> {PyInt(0), PyInt(1)}
      [] option = "timeout" -> {PyInt(0), PyInt(1)}
      [] option = "ssl_enabled" -> {PyBool(TRUE), PyBool(FALSE)}
      [] option = "ssl_cert" -> {PyStr("cert.pem")}
      [] option = "ssl_key" -> {PyStr("key.pem")}
      [] option = "middleware" -> {PyList(<<"auth">>), PyList(<<"cors", "metrics">>)}

Put(f, k, v) == [x \in DOMAIN f \cup {k} |-> IF x = k THEN v ELSE f[x]]

\* The mappings that give at most n of the options a value
RECURSIVE Sections(_, _)
Sections(options, n) ==
    IF options = {} \/ n = 0 THEN {EmptyMap}
    ELSE LET k == CHOOSE x \in options : TRUE
             rest == options \ {k}
         IN  Sections(rest, n)
             \cup {Put(f, k, v) : f \in Sections(rest, n - 1), v \in OptionValues(k)}

\* A key the document leaves out
Absent == [kind |-> "absent", v |-> 0]

\* A section of the YAML file is a mapping, or None when the file leaves it
\* empty; `default` may be left out
DefaultChoices(n) ==
    {Absent, PyNone} \cup {PyDict(f) : f \in Sections(Options, n)}

OverrideChoices ==
    {PyNone} \cup {PyDict(f) : f \in Sections(Options, MaxOverrideOptions)}

OptionCount(section) ==
    IF section.kind = "dict" THEN Cardinality(DOMAIN section.v) ELSE 0

\* `environments` declaring the server "main" of "dev" with the section o
Declaring(o) == PyDict("dev" :> PyDict("servers" :> PyDict("main" :> o)))

\* `environments` not declaring it: each level left out, empty or None, or
\* "dev" declaring the server "api" alone
UndeclaredChoices ==
    LET ServersChoices == {PyNone, PyDict(EmptyMap), PyDict("api" :> PyDict(EmptyMap))}
        EnvironmentChoices ==
            {PyNone, PyDict(EmptyMap)} \cup {PyDict("servers" :> sv) : sv \in ServersChoices}
    IN  {Absent, PyNone, PyDict(EmptyMap)}
        \cup {PyDict("dev" :> e) : e \in EnvironmentChoices}

\* The top-level mapping with the two sections, those left out not being keys
Document(default, environments) ==
    PyDict((IF default.kind = "absent" THEN EmptyMap ELSE "default" :> default)
           @@ (IF environments.kind = "absent"
               THEN EmptyMap ELSE "environments" :> environments))

\* The names a caller asks for: "qa" is declared by no document
EnvironmentNames == {"dev", "qa"}
ServerNames == {"main"}

---------------------------------------------------------------------------
(* The files: the configuration file and its backup *)

config_path == "mcp_servers.yaml"
backup_path == config_path \o ".bak"        \* f"{self.config_path}.bak"
Paths == {config_path, backup_path}

\* What a path holds: no file, or a text.  A text is known by the document
\* it is the YAML of and by its line endings; a text that is no YAML, the
\* empty text and a text cut short are the other kinds.
Missing == [kind |-> "missing", eol |-> "", v |-> 0]
InvalidYaml == [kind |-> "invalid", eol |-> "lf", v |-> 0]
EmptyFile == [kind |-> "empty", eol |-> "", v |-> 0]
Text(doc, eol) == [kind |-> "yaml", eol |-> eol, v |-> doc]
Partial(doc) == [kind |-> "partial", eol |-> "lf", v |-> doc]

\* os.path.exists(path)
Exists(fs, path) == fs[path].kind # "missing"

\* src.read() of a file opened with mode 'r': every line ending is read as
\* '\n', and dst.write on a Unix-like system writes '\n' as it is
ReadText(content) ==
    IF content.kind = "yaml" THEN Text(content.v, "lf") ELSE content

\* yaml.dump(config, f): the block-style text of the document, '\n' ended
YamlDump(doc) == Text(doc, "lf")

\* What a write that fails may leave of a text: nothing, or a part
CutShort(content) ==
    {EmptyFile} \cup (IF content.kind \in {"yaml", "partial"}
                      THEN {Partial(content.v)} ELSE {})

\* The manager that a failed construction did not produce
NoManager == [kind |-> "unconstructed", v |-> 0]

\* _load_config falling back on an empty document when there is no file
_load_config_fallback(content) ==
    CASE content.kind = "missing" -> {Return(PyDict(EmptyMap))}
      [] content.kind = "invalid" -> {Raise("YAMLError", "invalid YAML")}
      [] content.kind = "empty" -> {Return(PyNone)}
      [] content.kind = "yaml" -> {Return(content.v)}
      [] content.kind = "partial" ->
            {Raise("YAMLError", "invalid YAML"), Return(PyNone)}

\* _load_config: open(self.config_path, 'r') and yaml.safe_load(f), the
\* outcomes it may have.  The empty text loads as None; what a text cut short
\* loads as depends on the cut (the parse error and None are among them).
_load_config(content) ==
    CASE content.kind = "missing" ->
            {Raise("FileNotFoundError", "No such file or directory")}
      [] content.kind = "invalid" -> {Raise("YAMLError", "invalid YAML")}
      [] content.kind = "empty" -> {Return(PyNone)}
      [] content.kind = "yaml" -> {Return(content.v)}
      [] content.kind = "partial" ->
            {Raise("YAMLError", "invalid YAML"), Return(PyNone)}

\* No save_config call is under way, and none has been made.  Beside the
\* arguments of the call and the place it has reached, the record keeps what
\* the files held when the call began, whether the call failed in its backup
\* step, and whether every call so far has succeeded.
NotSaving ==
    [pc |-> "idle", config |-> PyNone, backup |-> FALSE,
     before |-> [p \in Paths |-> Missing], backup_failed |-> FALSE,
     all_succeeded |-> TRUE]

---------------------------------------------------------------------------
(* The other programs, not started *)

NoServer == [status |-> "none"]
NoDirectory == [name \in {} |-> 0]
NoCall == [op |-> "", env_type |-> "", before |-> NoDirectory, out |-> Return(PyNone)]

NoGit ==
    [op |-> "", pc |-> "idle", message |-> "", files |-> PyNone, commit_msg |-> "",
     temp_file |-> FALSE, commands |-> <<>>, out |-> Return(PyNone)]

NoWriters == [of |-> [w \in {} |-> 0], last |-> ""]

NoLaunch ==
    [pc |-> "none", environment |-> "", server_name |-> "",
     resolved |-> Return(PyNone), cause |-> "", out |-> Return(PyNone)]

NoScrape ==
    [pc |-> "none", urls |-> <<>>, max_concurrent |-> 0, semaphore |-> 0,
     task |-> <<>>, fetched |-> <<>>, content |-> <<>>, completed |-> <<>>,
     awaited |-> 0, results |-> EmptyMap]

NoFresh == [config |-> [kind |-> "unconstructed", v |-> 0], loaded |-> PyNone]

ServerIdle == server = NoServer
EnvIdle == env_dir = NoDirectory /\ env_call = NoCall
GitIdle == git = NoGit
WritersIdle == writers = NoWriters
LaunchIdle == launch = NoLaunch
ScrapeIdle == scrape = NoScrape
FreshIdle == fresh = NoFresh

---------------------------------------------------------------------------
(* The manager as a state machine *)

Called(op, environment, server_name, out) ==
    [op |-> op, environment |-> environment, server_name |-> server_name, out |-> out]

\* __init__: self.config = self._load_config()
\* yaml.safe_load gives None for an empty file, else the top-level mapping
Init ==
    /\ \/ config = PyNone
       \/ \E environments \in UndeclaredChoices, default \in DefaultChoices(MaxOptions) :
                config = Document(default, environments)
       \/ \E o \in OverrideChoices :
            \E default \in DefaultChoices(MaxOptions - OptionCount(o)) :
                config = Document(default, Declaring(o))
    /\ result = Called("__init__", "", "", Return(PyNone))
    /\ files = [p \in Paths |-> Missing]      \* the queries read no file
    /\ save = NotSaving
    /\ ServerIdle /\ EnvIdle /\ GitIdle /\ WritersIdle /\ LaunchIdle /\ ScrapeIdle /\ FreshIdle

GetEnvironments ==
    /\ result' = Called("get_environments", "", "", get_environments(config))
    /\ UNCHANGED <<config, files, save, notManager>>

GetServers ==
    \E environment \in EnvironmentNames :
        /\ result' = Called("get_servers", environment, "", get_servers(config, environment))
        /\ UNCHANGED <<config, files, save, notManager>>

GetServerConfig ==
    \E environment \in EnvironmentNames, server_name \in ServerNames :
        /\ result' = Called("get_server_config", environment, server_name,
                            get_server_config(config, environment, server_name))
        /\ UNCHANGED <<config, files, save, notManager>>

ValidateConfig ==
    \E environment \in EnvironmentNames, server_name \in ServerNames :
        /\ result' = Called("validate_config", environment, server_name,
                            validate_config(config, environment, server_name))
        /\ UNCHANGED <<config, files, save, notManager>>

Next ==
    \/ GetEnvironments
    \/ GetServers
    \/ GetServerConfig
    \/ ValidateConfig

Spec == Init /\ [][Next]_vars

---------------------------------------------------------------------------
(* The manager and its file: construction, the queries and save_config.    *)
(* save_config is followed step by step, each step of it succeeding or     *)
(* raising OSError (IOError is its alias).                                 *)

\* The documents found in the file and handed to save_config
StoredDocuments ==
    { Document(PyDict("host" :> PyStr("localhost")),
               Declaring(PyDict("port" :> PyInt(1)))),
      Document(Absent, PyDict("dev" :> PyDict(EmptyMap))),
      PyDict(EmptyMap) }

LineEndings == {"lf", "crlf"}

\* Before any manager is constructed: the file is absent, or no YAML, or
\* empty, or the YAML of a document; a backup may be there from earlier on
FileInit ==
    /\ config = NoManager
    /\ result = Called("", "", "", Return(PyNone))
    /\ \E content \in {Missing, InvalidYaml, EmptyFile}
                      \cup {Text(d, e) : d \in StoredDocuments, e \in LineEndings},
          old \in {Missing} \cup {Text(d, "lf") : d \in StoredDocuments} :
            files = (config_path :> content) @@ (backup_path :> old)
    /\ save = NotSaving
    /\ ServerIdle /\ EnvIdle /\ GitIdle /\ WritersIdle /\ LaunchIdle /\ ScrapeIdle /\ FreshIdle

\* __init__: self.config = self._load_config(); an error of the load leaves
\* the caller without a manager
Construct ==
    /\ config.kind = "unconstructed"
    /\ \E out \in _load_config(files[config_path]) :
          /\ config' = (IF out.exc = "" THEN out.val ELSE NoManager)
          /\ result' = Called("__init__", "", "",
                              IF out.exc = "" THEN Return(PyNone) ELSE out)
    /\ UNCHANGED <<files, save, notManager>>

\* A query on the constructed manager, between two calls of save_config
Query ==
    /\ config.kind # "unconstructed"
    /\ save.pc = "idle"
    /\ \/ GetEnvironments
       \/ GetServers
       \/ GetServerConfig
       \/ ValidateConfig

\* The call ends with the exception e
SaveRaises(e, in_backup) ==
    /\ result' = Called("save_config", "", "", Raise(e, "[Errno]"))
    /\ save' = [save EXCEPT !.pc = "idle", !.backup_failed = in_backup,
                             !.all_succeeded = FALSE]

\* save_config taking its backup whatever `backup` says
SaveConfigAlwaysBackup ==
    \E c \in StoredDocuments, backup \in BOOLEAN :
        /\ config.kind # "unconstructed"
        /\ save.pc = "idle"
        /\ save' = [pc |-> IF Exists(files, config_path)
                           THEN "open_backup" ELSE "open",
                    config |-> c, backup |-> backup,
                    before |-> files, backup_failed |-> FALSE,
                    all_succeeded |-> save.all_succeeded]
        /\ UNCHANGED <<config, result, files, notManager>>

\* save_config(config, backup) is called:
\* if backup and os.path.exists(self.config_path)
SaveConfig ==
    \E c \in StoredDocuments, backup \in BOOLEAN :
        /\ config.kind # "unconstructed"
        /\ save.pc = "idle"
        /\ save' = [pc |-> IF backup /\ Exists(files, config_path)
                           THEN "open_backup" ELSE "open",
                    config |-> c, backup |-> backup,
                    before |-> files, backup_failed |-> FALSE,
                    all_succeeded |-> save.all_succeeded]
        /\ UNCHANGED <<config, result, files, notManager>>

\* with open(self.config_path, 'r') as src, open(backup_path, 'w') as dst:
\* the backup is created, or emptied
OpenBackup ==
    /\ save.pc = "open_backup"
    /\ files' = [files EXCEPT ![backup_path] = EmptyFile]
    /\ save' = [save EXCEPT !.pc = "copy"]
    /\ UNCHANGED <<config, result, notManager>>

\* One of the two files does not open
OpenBackupFails ==
    /\ save.pc = "open_backup"
    /\ SaveRaises("OSError", TRUE)
    /\ UNCHANGED <<config, files, notManager>>

\* dst.write(src.read()), and the two files are closed
CopyToBackup ==
    /\ save.pc = "copy"
    /\ files' = [files EXCEPT ![backup_path] = ReadText(files[config_path])]
    /\ save' = [save EXCEPT !.pc = "open"]
    /\ UNCHANGED <<config, result, notManager>>

\* The failure of the copy logged and not raised again: the call goes on
CopyToBackupFailsSilently ==
    /\ save.pc = "copy"
    /\ \E left \in CutShort(ReadText(files[config_path])) :
            files' = [files EXCEPT ![backup_path] = left]
    /\ save' = [save EXCEPT !.pc = "open", !.backup_failed = TRUE]
    /\ UNCHANGED <<config, result, notManager>>

\* The read or the write fails: except IOError: raise
CopyToBackupFails ==
    /\ save.pc = "copy"
    /\ \E left \in CutShort(ReadText(files[config_path])) :
            files' = [files EXCEPT ![backup_path] = left]
    /\ SaveRaises("OSError", TRUE)
    /\ UNCHANGED <<config, notManager>>

\* with open(self.config_path, 'w') as f: the file is created, or emptied
OpenForWriting ==
    /\ save.pc = "open"
    /\ files' = [files EXCEPT ![config_path] = EmptyFile]
    /\ save' = [save EXCEPT !.pc = "dump"]
    /\ UNCHANGED <<config, result, notManager>>

OpenForWritingFails ==
    /\ save.pc = "open"
    /\ SaveRaises("OSError", FALSE)
    /\ UNCHANGED <<config, files, notManager>>

\* save_config keeping the document it saved: self.config = config
DumpAdoptsDocument ==
    /\ save.pc = "dump"
    /\ files' = [files EXCEPT ![config_path] = YamlDump(save.config)]
    /\ result' = Called("save_config", "", "", Return(PyNone))
    /\ save' = [save EXCEPT !.pc = "idle"]
    /\ config' = save.config
    /\ UNCHANGED notManager

\* yaml.dump(config, f, default_flow_style=False), the file is closed and
\* the call returns
Dump ==
    /\ save.pc = "dump"
    /\ files' = [files EXCEPT ![config_path] = YamlDump(save.config)]
    /\ result' = Called("save_config", "", "", Return(PyNone))
    /\ save' = [save EXCEPT !.pc = "idle"]
    /\ UNCHANGED <<config, notManager>>

\* The write fails: except IOError: raise
DumpFails ==
    /\ save.pc = "dump"
    /\ \E left \in CutShort(YamlDump(save.config)) :
            files' = [files EXCEPT ![config_path] = left]
    /\ SaveRaises("OSError", FALSE)
    /\ UNCHANGED <<config, notManager>>

FileNext ==
    \/ Construct
    \/ Query
    \/ SaveConfig
    \/ OpenBackup
    \/ OpenBackupFails
    \/ CopyToBackup
    \/ CopyToBackupFails
    \/ OpenForWriting
    \/ OpenForWritingFails
    \/ Dump
    \/ DumpFails

FileSpec == FileInit /\ [][FileNext]_vars

---------------------------------------------------------------------------
(* The command line: python server_config_manager.py <command> ...         *)

Commands == {"list-environments", "list-servers", "get-config", "validate", ""}

\* sys.exit(1); a run that reaches the end of the script exits with 0
Exit1 == Raise("SystemExit", "1")
ExitStatus(out) == IF out.exc = "SystemExit" THEN 1 ELSE 0

\* The script with `validate` printing the errors and not exiting
main_reports_only(loaded, command, environment, server_name) ==
    IF loaded.exc # "" THEN Exit1
    ELSE
    LET manager == loaded.val IN
    CASE command = "list-environments" ->
            IF get_environments(manager).exc # "" THEN Exit1 ELSE Return(PyNone)
      [] command = "list-servers" ->
            LET servers == get_servers(manager, environment) IN
            IF servers.exc # "" \/ servers.val.kind # "dict"
            THEN Exit1 ELSE Return(PyNone)
      [] command = "get-config" ->
            IF get_server_config(manager, environment, server_name).exc # ""
            THEN Exit1 ELSE Return(PyNone)
      [] command = "validate" ->
            LET errors == validate_config(manager, environment, server_name) IN
            IF errors.exc # "" THEN Exit1 ELSE Return(PyNone)
      [] OTHER -> Exit1

\* The script from `manager = ServerConfigManager()` on: any exception of
\* the construction or of the command is caught and ends in sys.exit(1)
main(loaded, command, environment, server_name) ==
    IF loaded.exc # "" THEN Exit1
    ELSE
    LET manager == loaded.val IN
    CASE command = "list-environments" ->
            IF get_environments(manager).exc # "" THEN Exit1 ELSE Return(PyNone)
      [] command = "list-servers" ->
            \* for server_name in servers: a value that is no mapping raises
            LET servers == get_servers(manager, environment) IN
            IF servers.exc # "" \/ servers.val.kind # "dict"
            THEN Exit1 ELSE Return(PyNone)
      [] command = "get-config" ->
            IF get_server_config(manager, environment, server_name).exc # ""
            THEN Exit1 ELSE Return(PyNone)
      [] command = "validate" ->
            LET errors == validate_config(manager, environment, server_name) IN
            IF errors.exc # "" THEN Exit1
            ELSE IF Truthy(errors.val) THEN Exit1
            ELSE Return(PyNone)
      [] OTHER -> Exit1          \* parser.print_help(); sys.exit(1)

\* A default section that validates
ValidDefault ==
    PyDict([k \in {"host", "port", "workers", "timeout"} |->
                IF k = "host" THEN PyStr("localhost") ELSE PyInt(1)])

\* The documents of the file the script reads
CliDocuments ==
    {Document(d, Declaring(o)) : d \in {ValidDefault, Absent, PyNone},
                                 o \in OverrideChoices}
    \cup {Document(ValidDefault, e) : e \in UndeclaredChoices}

CliInit ==
    /\ config = NoManager
    /\ result = Called("", "", "", Return(PyNone))
    /\ \E content \in {Missing, InvalidYaml, EmptyFile}
                      \cup {Text(d, "lf") : d \in CliDocuments} :
            files = (config_path :> content) @@ (backup_path :> Missing)
    /\ save = NotSaving
    /\ ServerIdle /\ EnvIdle /\ GitIdle /\ WritersIdle /\ LaunchIdle /\ ScrapeIdle /\ FreshIdle

\* One run of the script; the manager it constructs ends with the process
Main ==
    \E command \in Commands, environment \in EnvironmentNames,
       server_name \in ServerNames, loaded \in _load_config(files[config_path]) :
        /\ result' = Called(command, environment, server_name,
                            main(loaded, command, environment, server_name))
        /\ UNCHANGED <<config, files, save, notManager>>

CliNext == Main

CliSpec == CliInit /\ [][CliNext]_vars

---------------------------------------------------------------------------
(* examples/mcp_server_example.py: class MCPServer *)

MaxMiddleware == 2      \* middleware added to one server

\* The keys a server's config may hold, and the configs: the methods test
\* the keys alone
ConfigKeys == {"host", "port", "workers", "timeout", "max_requests"}
ServerConfigs ==
    {[k \in keys |-> IF k = "host" THEN PyStr("localhost") ELSE PyInt(1)] :
        keys \in SUBSET ConfigKeys}

MiddlewareNames == {"SecurityMiddleware", "MetricsMiddleware"}
RoutePaths == {"/health", "/echo"}
Handlers == {"health_check", "echo"}

\* The last method called on the server, its argument and what it returned
Method(op, arg, val) == [op |-> op, arg |-> arg, val |-> val]

\* __init__(self, config)
MCPServer(cfg) ==
    [config |-> cfg, middleware |-> <<>>, routes |-> EmptyMap,
     status |-> "initialized", last |-> Method("__init__", "", PyNone)]

\* any(k in self.config for k in [...])
is_configured_any(cfg) ==
    LET keys == <<"host", "port", "workers", "timeout">> IN
    \E n \in DOMAIN keys : keys[n] \in DOMAIN cfg

\* all(k in self.config for k in ["host", "port", "workers", "timeout"])
is_configured(cfg) ==
    LET keys == <<"host", "port", "workers", "timeout">> IN
    \A n \in DOMAIN keys : keys[n] \in DOMAIN cfg

ServerInit ==
    /\ \E cfg \in ServerConfigs : server = MCPServer(cfg)
    /\ config = NoManager
    /\ result = Called("", "", "", Return(PyNone))
    /\ files = [p \in Paths |-> Missing]
    /\ save = NotSaving
    /\ EnvIdle /\ GitIdle /\ WritersIdle /\ LaunchIdle /\ ScrapeIdle /\ FreshIdle

\* self.middleware.insert(0, middleware)
AddMiddlewareFirst ==
    \E middleware \in MiddlewareNames :
        /\ Len(server.middleware) < MaxMiddleware
        /\ server' = [server EXCEPT
                        !.middleware = <<middleware>> \o @,
                        !.last = Method("add_middleware", middleware, PyNone)]
        /\ UNCHANGED notServer

\* add_middleware: self.middleware.append(middleware)
AddMiddleware ==
    \E middleware \in MiddlewareNames :
        /\ Len(server.middleware) < MaxMiddleware
        /\ server' = [server EXCEPT
                        !.middleware = Append(@, middleware),
                        !.last = Method("add_middleware", middleware, PyNone)]
        /\ UNCHANGED notServer

\* add_route: self.routes[path] = handler
AddRoute ==
    \E path \in RoutePaths, handler \in Handlers :
        /\ server' = [server EXCEPT
                        !.routes = Put(@, path, handler),
                        !.last = Method("add_route", path, PyNone)]
        /\ UNCHANGED notServer

IsConfigured ==
    /\ server' = [server EXCEPT
                    !.last = Method("is_configured", "",
                                    PyBool(is_configured(server.config)))]
    /\ UNCHANGED notServer

\* get_status: return self.status
GetStatus ==
    /\ server' = [server EXCEPT
                    !.last = Method("get_status", "", PyStr(server.status))]
    /\ UNCHANGED notServer

\* start: self.status = "running"
Start ==
    /\ server' = [server EXCEPT !.status = "running",
                                !.last = Method("start", "", PyNone)]
    /\ UNCHANGED notServer

\* shutdown: self.status = "stopped"
Shutdown ==
    /\ server' = [server EXCEPT !.status = "stopped",
                                !.last = Method("shutdown", "", PyNone)]
    /\ UNCHANGED notServer

ServerNext ==
    \/ AddMiddleware
    \/ AddRoute
    \/ IsConfigured
    \/ GetStatus
    \/ Start
    \/ Shutdown

ServerSpec == ServerInit /\ [][ServerNext]_vars

---------------------------------------------------------------------------
(* dev/tools/env_manager.py on a Unix-like system: the working directory   *)
(* holds `.env`, the environment files `.env.<type>` and `.env.backup`.    *)

EnvTypes == {"dev", "prod", "backup"}

env_path == ".env"                              \* root_dir / '.env'
TargetName(env_type) == ".env." \o env_type     \* root_dir / f'.env.{env_type}'
BackupName == env_path \o ".backup"             \* env_path.with_suffix('.backup')
EnvNames == {env_path} \cup {TargetName(t) : t \in EnvTypes}

\* What a name of the directory is: nothing, a file with its content, or a
\* symbolic link to another name
NoEntry == [kind |-> "missing", v |-> ""]
File(content) == [kind |-> "file", v |-> content]
Link(target) == [kind |-> "link", v |-> target]

\* The name of the file a path leads to through at most n links, "" when it
\* leads to none
RECURSIVE Resolve(_, _, _)
Resolve(dir, name, n) ==
    CASE dir[name].kind = "missing" -> ""
      [] dir[name].kind = "file" -> name
      [] dir[name].kind = "link" ->
            IF n = 0 THEN "" ELSE Resolve(dir, dir[name].v, n - 1)

\* Path.exists(): a link that leads to no file does not exist
PathExists(dir, name) == Resolve(dir, name, Cardinality(DOMAIN dir)) # ""

\* The outcome of a call: the directory it leaves and what it returns or raises
Left(dir, out) == [dir |-> dir, out |-> out]

\* shutil.copy2(src, dst) of an existing src: the content src leads to is
\* written to the file dst leads to, or to dst; the two being one file raises
copy2(dir, src, dst) ==
    LET from == Resolve(dir, src, Cardinality(DOMAIN dir))
        to == IF dir[dst].kind = "link" THEN dir[dst].v ELSE dst
    IN  IF from = to
        THEN Left(dir, Raise("SameFileError", "are the same file"))
        ELSE Left([dir EXCEPT ![to] = File(dir[from].v)], Return(PyStr(dst)))

\* A backup that keeps the backup file there is
backup_env_once(dir, path) ==
    IF PathExists(dir, path) /\ dir[BackupName].kind = "missing"
    THEN copy2(dir, path, BackupName)
    ELSE Left(dir, Return(PyNone))

\* backup_env(env_path)
backup_env(dir, path) ==
    IF PathExists(dir, path)
    THEN copy2(dir, path, BackupName)
    ELSE Left(dir, Return(PyNone))

\* The steps after the test of the target, leaving a `.env` that is a link as
\* it is
SwitchToKeepingLink(dir, target) ==
    LET backed == IF PathExists(dir, env_path)
                  THEN backup_env(dir, env_path)
                  ELSE Left(dir, Return(PyNone))
    IN  IF backed.out.exc # "" THEN backed
        ELSE IF backed.dir[env_path].kind = "link"
        THEN Left(backed.dir, Return(PyNone))
        ELSE Left([backed.dir EXCEPT ![env_path] = Link(target)], Return(PyNone))

\* The steps after the test of the target, the environment file copied to
\* `.env` where the code makes a link
SwitchToCopying(dir, target) ==
    LET backed == IF PathExists(dir, env_path)
                  THEN backup_env(dir, env_path)
                  ELSE Left(dir, Return(PyNone))
    IN  IF backed.out.exc # "" THEN backed
        ELSE LET copied == copy2(backed.dir, target, env_path) IN
             Left(copied.dir, IF copied.out.exc = "" THEN Return(PyNone) ELSE copied.out)

\* The steps of switch_environment after the test of the target
SwitchTo(dir, target) ==
    LET backed == IF PathExists(dir, env_path)
                  THEN backup_env(dir, env_path)
                  ELSE Left(dir, Return(PyNone))
    IN  IF backed.out.exc # "" THEN backed
        ELSE
        LET unlinked == IF PathExists(backed.dir, env_path)
                        THEN [backed.dir EXCEPT ![env_path] = NoEntry]
                        ELSE backed.dir
        IN  \* env_path.symlink_to(target_env)
            IF unlinked[env_path].kind # "missing"
            THEN Left(unlinked, Raise("FileExistsError", "File exists"))
            ELSE Left([unlinked EXCEPT ![env_path] = Link(target)], Return(PyNone))

EnvironmentFileNotFound(env_type) ==
    "Environment file .env." \o env_type \o " not found"

\* switch_environment testing the target after the backup and the unlink
switch_environment_late_test(dir, env_type) ==
    LET target == TargetName(env_type)
        backed == IF PathExists(dir, env_path)
                  THEN backup_env(dir, env_path)
                  ELSE Left(dir, Return(PyNone))
    IN  IF backed.out.exc # "" THEN backed
        ELSE IF ~PathExists(backed.dir, target)
        THEN Left(backed.dir, Raise("FileNotFoundError", EnvironmentFileNotFound(env_type)))
        ELSE SwitchTo(dir, target)

\* switch_environment(env_type)
switch_environment(dir, env_type) ==
    LET target == TargetName(env_type) IN
    IF ~PathExists(dir, target)
    THEN Left(dir, Raise("FileNotFoundError", EnvironmentFileNotFound(env_type)))
    ELSE SwitchTo(dir, target)

EnvCall(op, env_type, dir, out) ==
    [op |-> op, env_type |-> env_type, before |-> dir, out |-> out]

\* `.env` is absent, a file, or a link to an environment file, which may be
\* absent; each environment file and the backup are files, or absent
EnvInit ==
    /\ \E current \in {NoEntry, File("CURRENT=true")}
                      \cup {Link(TargetName(t)) : t \in EnvTypes},
          dev \in {NoEntry, File("DEV=true")},
          prod \in {NoEntry, File("PROD=true")},
          backup \in {NoEntry, File("OLD=true")} :
            env_dir = [name \in EnvNames |->
                        CASE name = env_path -> current
                          [] name = TargetName("dev") -> dev
                          [] name = TargetName("prod") -> prod
                          [] name = TargetName("backup") -> backup]
    /\ env_call = NoCall
    /\ config = NoManager
    /\ result = Called("", "", "", Return(PyNone))
    /\ files = [p \in Paths |-> Missing]
    /\ save = NotSaving
    /\ ServerIdle /\ GitIdle /\ WritersIdle /\ LaunchIdle /\ ScrapeIdle /\ FreshIdle

SwitchEnvironment ==
    \E env_type \in EnvTypes :
        LET left == switch_environment(env_dir, env_type) IN
        /\ env_dir' = left.dir
        /\ env_call' = EnvCall("switch_environment", env_type, env_dir, left.out)
        /\ UNCHANGED notEnv

BackupEnv ==
    LET left == backup_env(env_dir, env_path) IN
    /\ env_dir' = left.dir
    /\ env_call' = EnvCall("backup_env", "", env_dir, left.out)
    /\ UNCHANGED notEnv

EnvNext ==
    \/ SwitchEnvironment
    \/ BackupEnv

EnvSpec == EnvInit /\ [][EnvNext]_vars

---------------------------------------------------------------------------
(* tools/git_automation.py: the standardized commit message, and the       *)
(* commit made with it.  Each git command is a step of its own, since it   *)
(* may fail.                                                               *)

MaxFiles == 2

\* Paths that meet each test of create_commit_message, alone and together
FileNames ==
    {"tests/test_file.py", "README.md", "tools/new_feature.py",
     "random_file.txt", "test_notes.md", "tools/README.md"}

FileLists == UNION {[1..n -> FileNames] : n \in 0..MaxFiles}

Messages == {"Add test", "Update docs"}

\* str.startswith and str.endswith
startswith(f, prefix) ==
    Len(f) >= Len(prefix) /\ SubSeq(f, 1, Len(prefix)) = prefix
endswith(f, suffix) ==
    Len(f) >= Len(suffix) /\ SubSeq(f, Len(f) - Len(suffix) + 1, Len(f)) = suffix

\* for file in files: commit_msg += f"- {file}\n"
RECURSIVE ChangedFiles(_)
ChangedFiles(file_list) ==
    IF Len(file_list) = 0 THEN ""
    ELSE "- " \o Head(file_list) \o "\n" \o ChangedFiles(Tail(file_list))

\* create_commit_message taking the type from the first file alone
create_commit_message_first_file(file_list, message) ==
    LET commit_type ==
            IF Len(file_list) = 0 THEN "chore"
            ELSE IF startswith(file_list[1], "test") THEN "test"
            ELSE IF endswith(file_list[1], ".md") THEN "docs"
            ELSE IF startswith(file_list[1], "tools/") THEN "feat"
            ELSE "chore"
    IN  "[Cursor] " \o commit_type \o ": " \o message \o "\n\nChanged files:\n"
            \o ChangedFiles(file_list)

\* create_commit_message(files, message)
create_commit_message(file_list, message) ==
    LET commit_type ==
            IF \E i \in 1..Len(file_list) : startswith(file_list[i], "test") THEN "test"
            ELSE IF \E i \in 1..Len(file_list) : endswith(file_list[i], ".md") THEN "docs"
            ELSE IF \E i \in 1..Len(file_list) : startswith(file_list[i], "tools/") THEN "feat"
            ELSE "chore"
    IN  "[Cursor] " \o commit_type \o ": " \o message \o "\n\nChanged files:\n"
            \o ChangedFiles(file_list)

\* What a git command that does not succeed leaves: run_command exits with
\* status 1 on a failed command; a missing git executable raises out of it
RunFailures == {Exit1, Raise("FileNotFoundError", "No such file or directory: 'git'")}

\* The lines of `git status --porcelain`, and the paths get_changed_files
\* takes from them (line[3:])
StatusCodes == {" M ", "?? "}
Porcelain(code, file_list) == [i \in 1..Len(file_list) |-> code \o file_list[i]]
get_changed_files(lines) ==
    [i \in 1..Len(lines) |-> SubSeq(lines[i], 4, Len(lines[i]))]

temp_file == "/tmp/tmpcommitmsg"        \* f.name

GitCall(op, message, file_list) ==
    [NoGit EXCEPT !.op = op, !.message = message, !.files = file_list]

\* run_command(cmd): the command is on record with whether it succeeded
Ran(g, cmd, ok) == [g EXCEPT !.commands = Append(@, [cmd |-> cmd, ok |-> ok])]

\* commit_changes once the file list is known: nothing to commit, or the
\* message is written to the temporary file
Prepare(g, file_list) ==
    IF Len(file_list) = 0
    THEN [g EXCEPT !.pc = "done", !.files = PyList(file_list), !.out = Return(PyNone)]
    ELSE [g EXCEPT !.pc = "add", !.files = PyList(file_list),
                   !.commit_msg = create_commit_message(file_list, g.message),
                   !.temp_file = TRUE]

\* The finally clause: os.unlink(temp_file)
Finally(g, out) == [g EXCEPT !.pc = "done", !.temp_file = FALSE, !.out = out]

ManagerIdle ==
    /\ config = NoManager
    /\ result = Called("", "", "", Return(PyNone))
    /\ files = [p \in Paths |-> Missing]
    /\ save = NotSaving

GitInit ==
    /\ git = NoGit
    /\ ManagerIdle /\ ServerIdle /\ EnvIdle /\ WritersIdle /\ LaunchIdle /\ ScrapeIdle /\ FreshIdle

CreateCommitMessage ==
    /\ git.pc \in {"idle", "done"}
    /\ \E file_list \in FileLists, message \in Messages :
        git' = [GitCall("create_commit_message", message, PyList(file_list)) EXCEPT
                    !.pc = "done",
                    !.out = Return(PyStr(create_commit_message(file_list, message)))]
    /\ UNCHANGED notGit

\* commit_changes(message, files): files None asks git for the changed files
CommitChanges ==
    /\ git.pc \in {"idle", "done"}
    /\ \E message \in Messages :
        \/ git' = [GitCall("commit_changes", message, PyNone) EXCEPT !.pc = "status"]
        \/ \E file_list \in FileLists :
            git' = Prepare(GitCall("commit_changes", message, PyList(file_list)), file_list)
    /\ UNCHANGED notGit

GitStatus ==
    /\ git.pc = "status"
    /\ LET cmd == <<"git", "status", "--porcelain">> IN
        \/ \E e \in RunFailures :
            git' = [Ran(git, cmd, FALSE) EXCEPT !.pc = "done", !.out = e]
        \/ \E file_list \in FileLists, code \in StatusCodes :
            git' = Prepare(Ran(git, cmd, TRUE),
                           get_changed_files(Porcelain(code, file_list)))
    /\ UNCHANGED notGit

\* The add going on to the commit whether it succeeded or not
GitAddIgnoringFailure ==
    /\ git.pc = "add"
    /\ \E ok \in BOOLEAN :
        git' = [Ran(git, <<"git", "add">> \o git.files.v, ok) EXCEPT !.pc = "commit"]
    /\ UNCHANGED notGit

GitAdd ==
    /\ git.pc = "add"
    /\ LET cmd == <<"git", "add">> \o git.files.v IN
        \/ git' = [Ran(git, cmd, TRUE) EXCEPT !.pc = "commit"]
        \/ \E e \in RunFailures : git' = Finally(Ran(git, cmd, FALSE), e)
    /\ UNCHANGED notGit

GitCommit ==
    /\ git.pc = "commit"
    /\ LET cmd == <<"git", "commit", "-F", temp_file>> IN
        \/ git' = Finally(Ran(git, cmd, TRUE), Return(PyNone))
        \/ \E e \in RunFailures : git' = Finally(Ran(git, cmd, FALSE), e)
    /\ UNCHANGED notGit

GitNext ==
    \/ CreateCommitMessage
    \/ CommitChanges
    \/ GitStatus
    \/ GitAdd
    \/ GitCommit

GitSpec == GitInit /\ [][GitNext]_vars

---------------------------------------------------------------------------

(* Two instances on one path, each in a process of its own, saving at the  *)
(* same time.  Here a file is the text it holds, character by character:   *)
(* each process writes through its own descriptor, from its own offset.    *)

Writers == {"a", "b"}

\* A file holding the text
Raw(text) == [kind |-> "text", eol |-> "lf", v |-> text]

\* The lines of a text, split at each "\n"
RECURSIVE SplitLines(_)
SplitLines(text) ==
    IF \E i \in 1..Len(text) : SubSeq(text, i, i) = "\n"
    THEN LET i == CHOOSE k \in 1..Len(text) :
                    /\ SubSeq(text, k, k) = "\n"
                    /\ \A j \in 1..(k - 1) : SubSeq(text, j, j) # "\n"
         IN  <<SubSeq(text, 1, i - 1)>> \o SplitLines(SubSeq(text, i + 1, Len(text)))
    ELSE <<text>>

\* The keys of the documents, in the order yaml.dump sorts them
KeyOrder ==
    <<"api", "default", "dev", "environments", "host", "main", "port",
      "servers", "ssl_enabled", "timeout", "workers">>

\* The type YAML's implicit resolvers give a plain scalar
Decimals == "0123456789"
IsInteger(s) ==
    /\ Len(s) > 0
    /\ \A i \in 1..Len(s) : \E d \in 1..10 : SubSeq(s, i, i) = SubSeq(Decimals, d, d)
ImplicitKind(s) ==
    CASE s \in {"", "~", "null", "Null", "NULL"} -> "none"
      [] s \in {"true", "True", "TRUE", "false", "False", "FALSE",
                "yes", "Yes", "YES", "no", "No", "NO",
                "on", "On", "ON", "off", "Off", "OFF"} -> "bool"
      [] IsInteger(s) -> "int"
      [] OTHER -> "str"

\* A scalar written without quotes whatever a reader would take it for
YamlScalarPlain(x) ==
    CASE x.kind = "none" -> "null"
      [] x.kind = "bool" -> IF x.v THEN "true" ELSE "false"
      [] x.kind = "int" -> ToString(x.v)
      [] x.kind = "str" -> x.v
      [] x.kind = "dict" -> "{}"

\* A scalar, or the empty mapping, as yaml.dump writes it: a string that a
\* reader would resolve to another type is put in quotes
YamlScalar(x) ==
    CASE x.kind = "none" -> "null"
      [] x.kind = "bool" -> IF x.v THEN "true" ELSE "false"
      [] x.kind = "int" -> ToString(x.v)
      [] x.kind = "str" ->
            IF ImplicitKind(x.v) = "str" THEN x.v ELSE "'" \o x.v \o "'"
      [] x.kind = "dict" -> "{}"

\* A mapping in block style: the keys sorted, a mapping that is not empty
\* on the lines below its key, two spaces further in
RECURSIVE YamlMapping(_, _, _)
YamlMapping(mapping, keys, indent) ==
    IF Len(keys) = 0 THEN ""
    ELSE LET k == Head(keys) IN
         (IF k \notin DOMAIN mapping THEN ""
          ELSE IF mapping[k].kind = "dict" /\ DOMAIN mapping[k].v # {}
          THEN indent \o k \o ":\n" \o YamlMapping(mapping[k].v, KeyOrder, indent \o "  ")
          ELSE indent \o k \o ": " \o YamlScalar(mapping[k]) \o "\n")
         \o YamlMapping(mapping, Tail(keys), indent)

\* yaml.dump(config, f, default_flow_style=False) of mappings and scalars
YamlText(doc) ==
    IF doc.kind = "dict" /\ DOMAIN doc.v # {}
    THEN YamlMapping(doc.v, KeyOrder, "")
    ELSE IF doc.kind = "dict" THEN "{}\n"
    ELSE YamlScalar(doc) \o "\n...\n"

\* The value of a decimal numeral
RECURSIVE ToInteger(_)
ToInteger(s) ==
    IF Len(s) = 0 THEN 0
    ELSE ToInteger(SubSeq(s, 1, Len(s) - 1)) * 10
         + (CHOOSE d \in 1..10 : SubSeq(Decimals, d, d) = SubSeq(s, Len(s), Len(s))) - 1

\* The value yaml.safe_load gives a scalar of the text
LoadScalar(s) ==
    IF Len(s) >= 2 /\ SubSeq(s, 1, 1) = "'" /\ SubSeq(s, Len(s), Len(s)) = "'"
    THEN PyStr(SubSeq(s, 2, Len(s) - 1))
    ELSE IF s = "{}" THEN PyDict(EmptyMap)
    ELSE CASE ImplicitKind(s) = "none" -> PyNone
           [] ImplicitKind(s) = "bool" ->
                PyBool(s \in {"true", "True", "TRUE", "yes", "Yes", "YES", "on", "On", "ON"})
           [] ImplicitKind(s) = "int" -> PyInt(ToInteger(s))
           [] OTHER -> PyStr(s)

\* The spaces a line begins with, and where its first ":" is
Indentation(line) ==
    CHOOSE n \in 0..Len(line) :
        /\ \A i \in 1..n : SubSeq(line, i, i) = " "
        /\ n < Len(line) => SubSeq(line, n + 1, n + 1) # " "
ColonAt(line) ==
    CHOOSE i \in 1..Len(line) :
        /\ SubSeq(line, i, i) = ":"
        /\ \A j \in 1..(i - 1) : SubSeq(line, j, j) # ":"

\* The block mapping the lines hold at an indentation: a key with nothing
\* after its colon has the lines further in, which follow it, as its value
RECURSIVE LoadMapping(_, _)
LoadMapping(lines, indent) ==
    IF Len(lines) = 0 THEN EmptyMap
    ELSE LET line == Head(lines)
             colon == ColonAt(line)
             key == SubSeq(line, indent + 1, colon - 1)
             inner == CHOOSE n \in 0..(Len(lines) - 1) :
                        /\ \A i \in 2..(n + 1) : Indentation(lines[i]) > indent
                        /\ n + 2 <= Len(lines) => Indentation(lines[n + 2]) <= indent
             value == IF colon = Len(line)
                      THEN PyDict(LoadMapping(SubSeq(lines, 2, inner + 1), indent + 2))
                      ELSE LoadScalar(SubSeq(line, colon + 2, Len(line)))
         IN  Put(LoadMapping(SubSeq(lines, inner + 2, Len(lines)), indent), key, value)

\* yaml.safe_load(f) of a text yaml.dump wrote: nothing, a scalar or the
\* empty mapping followed by the end of the document, or a block mapping
safe_load(text) ==
    LET lines == SelectSeq(SplitLines(text), LAMBDA line : line # "" /\ line # "...") IN
    IF Len(lines) = 0 THEN PyNone
    ELSE IF \A i \in 1..Len(lines[1]) : SubSeq(lines[1], i, i) # ":"
    THEN LoadScalar(lines[1])
    ELSE PyDict(LoadMapping(lines, 0))

WriterDocuments ==
    { PyDict("default" :> PyDict(o)) :
        o \in { EmptyMap,
                "host" :> PyStr("localhost"),
                ("host" :> PyStr("localhost")) @@ ("port" :> PyInt(8080)) } }

\* open(path, 'w'): the file is created or emptied, the offset is 0
Truncated == Raw("")

\* The text leaving the buffer when the file is closed, written from offset
\* 0 of a file that holds `old`: what old holds beyond it stays
WriteFromStart(old, data) ==
    Raw(data \o (IF Len(old.v) > Len(data)
                 THEN SubSeq(old.v, Len(data) + 1, Len(old.v)) ELSE ""))

NotCalled == [pc |-> "idle", config |-> PyNone, backup |-> FALSE]

\* Both instances are constructed on a file that holds a document
WritersInit ==
    /\ \E d \in WriterDocuments :
        files = (config_path :> Raw(YamlText(d))) @@ (backup_path :> Missing)
    /\ writers = [of |-> [w \in Writers |-> NotCalled], last |-> ""]
    /\ config = NoManager
    /\ result = Called("", "", "", Return(PyNone))
    /\ save = NotSaving
    /\ ServerIdle /\ EnvIdle /\ GitIdle /\ LaunchIdle /\ ScrapeIdle /\ FreshIdle

At(w, pc) == [writers EXCEPT !.of[w].pc = pc]

\* save_config(config, backup) is called on an instance
WriterSaveConfig ==
    \E w \in Writers, c \in WriterDocuments, backup \in BOOLEAN :
        /\ writers.of[w].pc = "idle"
        /\ writers' = [writers EXCEPT !.of[w] =
                        [pc |-> IF backup /\ Exists(files, config_path)
                                THEN "open_backup" ELSE "open",
                         config |-> c, backup |-> backup]]
        /\ UNCHANGED <<files, notWriter>>

\* open(self.config_path, 'r') as src, open(backup_path, 'w') as dst
WriterOpenBackup ==
    \E w \in Writers :
        /\ writers.of[w].pc = "open_backup"
        /\ files' = [files EXCEPT ![backup_path] = Truncated]
        /\ writers' = At(w, "copy")
        /\ UNCHANGED notWriter

\* dst.write(src.read()), and dst is closed
WriterCopyToBackup ==
    \E w \in Writers :
        /\ writers.of[w].pc = "copy"
        /\ files' = [files EXCEPT ![backup_path] =
                        WriteFromStart(@, files[config_path].v)]
        /\ writers' = At(w, "open")
        /\ UNCHANGED notWriter

\* open(self.config_path, 'w')
WriterOpenForWriting ==
    \E w \in Writers :
        /\ writers.of[w].pc = "open"
        /\ files' = [files EXCEPT ![config_path] = Truncated]
        /\ writers' = At(w, "dump")
        /\ UNCHANGED notWriter

\* yaml.dump(config, f), and f is closed
WriterDump ==
    \E w \in Writers :
        /\ writers.of[w].pc = "dump"
        /\ files' = [files EXCEPT ![config_path] =
                        WriteFromStart(@, YamlText(writers.of[w].config))]
        /\ writers' = [At(w, "done") EXCEPT !.last = w]
        /\ UNCHANGED notWriter

WritersNext ==
    \/ WriterSaveConfig
    \/ WriterOpenBackup
    \/ WriterCopyToBackup
    \/ WriterOpenForWriting
    \/ WriterDump

WritersSpec == WritersInit /\ [][WritersNext]_vars

---------------------------------------------------------------------------

(* examples/mcp_server_example.py: main(), which resolves a config, makes   *)
(* the server from it, starts it if it is configured and waits until it is *)
(* interrupted.                                                            *)

RequiredKeys == {"host", "port", "workers", "timeout"}

\* The `middleware` option of the server's section: left out; a list of
\* names; a list of mappings from a class name to its options, one class
\* unknown to main; the same with options that are no mapping
MiddlewareKinds == {"absent", "names", "mappings", "no options"}
MiddlewareOption(kind) ==
    CASE kind = "names" -> PyList(<<PyStr("auth")>>)
      [] kind = "mappings" ->
            PyList(<< PyDict("SecurityMiddleware" :> PyDict(EmptyMap)),
                      PyDict(("MetricsMiddleware" :> PyDict("enabled" :> PyBool(TRUE)))
                             @@ ("CorsMiddleware" :> PyDict(EmptyMap))) >>)
      [] kind = "no options" ->
            PyList(<< PyDict("SecurityMiddleware" :> PyDict(EmptyMap)),
                      PyDict("MetricsMiddleware" :> PyNone) >>)

\* The document of the file: `default` gives the keys a value, and "dev"
\* declares the server "main", or declares no server
LaunchDocument(keys, kind, declared) ==
    Document(PyDict([k \in keys |-> IF k = "host" THEN PyStr("localhost") ELSE PyInt(1)]),
             IF declared
             THEN Declaring(PyDict(IF kind = "absent" THEN EmptyMap
                                   ELSE "middleware" :> MiddlewareOption(kind)))
             ELSE PyDict("dev" :> PyDict(EmptyMap)))

\* The loop over config.get("middleware", []): the class names of the
\* middleware added to those already there, and the exception that ends the
\* loop early, "" when none does
RECURSIVE AddConfigured(_, _)
AddConfigured(items, added) ==
    IF Len(items) = 0 THEN [added |-> added, exc |-> ""]
    ELSE LET middleware_config == Head(items) IN
         IF middleware_config.kind # "dict"
         THEN [added |-> added, exc |-> "AttributeError"]     \* no .items()
         ELSE LET known == SetToSeq(DOMAIN middleware_config.v \cap MiddlewareNames)
                  mapped == {n \in DOMAIN known :
                                middleware_config.v[known[n]].kind = "dict"}
              IN  IF mapped # DOMAIN known
                  THEN [added |-> added, exc |-> "TypeError"]  \* ** of no mapping
                  ELSE AddConfigured(Tail(items), added \o known)

\* main() raising the exception of that name: logged, then sys.exit(1)
Exited(l, out) == [l EXCEPT !.pc = "exited", !.out = out]

LaunchInit ==
    /\ \/ \E content \in {Missing, InvalidYaml, EmptyFile} :
            files = (config_path :> content) @@ (backup_path :> Missing)
       \/ \E keys \in SUBSET RequiredKeys, kind \in MiddlewareKinds,
             declared \in BOOLEAN :
            files = (config_path :> Text(LaunchDocument(keys, kind, declared), "lf"))
                    @@ (backup_path :> Missing)
    /\ launch = [NoLaunch EXCEPT !.pc = "start"]
    /\ server = NoServer
    /\ config = NoManager
    /\ result = Called("", "", "", Return(PyNone))
    /\ save = NotSaving
    /\ EnvIdle /\ GitIdle /\ WritersIdle /\ ScrapeIdle /\ FreshIdle

\* config = get_server_config(args.env, args.server); server = MCPServer(config)
ResolveConfig ==
    /\ launch.pc = "start"
    /\ \E environment \in EnvironmentNames, server_name \in ServerNames,
          loaded \in _load_config(files[config_path]) :
        LET resolved == IF loaded.exc # "" THEN loaded
                        ELSE get_server_config(loaded.val, environment, server_name)
            called == [launch EXCEPT !.environment = environment,
                                     !.server_name = server_name,
                                     !.resolved = resolved]
        IN  IF resolved.exc # ""
            THEN /\ launch' = Exited(called, Exit1)
                 /\ UNCHANGED server
            ELSE /\ launch' = [called EXCEPT !.pc = "middleware"]
                 /\ server' = MCPServer(resolved.val.v)
    /\ UNCHANGED notLaunch

\* for middleware_config in config.get("middleware", []): ...
AddConfiguredMiddleware ==
    /\ launch.pc = "middleware"
    /\ LET items == IF "middleware" \in DOMAIN server.config
                    THEN server.config["middleware"] ELSE PyList(<<>>)
           looped == AddConfigured(items.v, server.middleware)
       IN  /\ server' = [server EXCEPT !.middleware = looped.added]
           /\ launch' = IF looped.exc # "" THEN Exited(launch, Exit1)
                        ELSE [launch EXCEPT !.pc = "routes"]
    /\ UNCHANGED notLaunch

\* server.add_route("/health", health_check); server.add_route("/echo", echo)
AddRoutes ==
    /\ launch.pc = "routes"
    /\ server' = [server EXCEPT
                    !.routes = Put(Put(@, "/health", "health_check"), "/echo", "echo")]
    /\ launch' = [launch EXCEPT !.pc = "configured?"]
    /\ UNCHANGED notLaunch

\* The server started without the test of its configuration
StartUnchecked ==
    /\ launch.pc = "configured?"
    /\ server' = [server EXCEPT !.status = "running"]
    /\ launch' = [launch EXCEPT !.pc = "waiting"]
    /\ UNCHANGED notLaunch

\* if server.is_configured(): await server.start() ... else: logger.error
StartIfConfigured ==
    /\ launch.pc = "configured?"
    /\ IF is_configured(server.config)
       THEN /\ server' = [server EXCEPT !.status = "running"]
            /\ launch' = [launch EXCEPT !.pc = "waiting"]
       ELSE /\ launch' = Exited(launch, Return(PyNone))
            /\ UNCHANGED server
    /\ UNCHANGED notLaunch

\* while True: await asyncio.sleep(1) is left by an exception alone: the
\* KeyboardInterrupt of Ctrl+C, or the cancellation by which asyncio.run
\* delivers it to the task.  A sleep that returns changes nothing.
Interrupt ==
    /\ launch.pc = "waiting"
    /\ \E cause \in {"KeyboardInterrupt", "CancelledError"} :
        launch' = [launch EXCEPT !.pc = "finally", !.cause = cause]
    /\ UNCHANGED <<server, notLaunch>>

\* finally: await server.shutdown(); a KeyboardInterrupt was caught by main(),
\* a cancellation goes on out of it and asyncio.run raises KeyboardInterrupt
ShutdownFinally ==
    /\ launch.pc = "finally"
    /\ server' = [server EXCEPT !.status = "stopped"]
    /\ launch' = Exited(launch, IF launch.cause = "KeyboardInterrupt"
                                THEN Return(PyNone)
                                ELSE Raise("KeyboardInterrupt", ""))
    /\ UNCHANGED notLaunch

LaunchNext ==
    \/ ResolveConfig
    \/ AddConfiguredMiddleware
    \/ AddRoutes
    \/ StartIfConfigured
    \/ Interrupt
    \/ ShutdownFinally

\* The finally clause runs once the loop is left: nothing else is scheduled
LaunchSpec == LaunchInit /\ [][LaunchNext]_vars /\ WF_vars(ShutdownFinally)

---------------------------------------------------------------------------

(* dev/tools/web_scraper.py: scrape_urls with aiohttp.  One task is made   *)
(* for each url; a task fetches while it holds the semaphore.              *)

MaxUrls == 3
MaxConcurrent == 2

ScrapedUrls == {"http://a.example", "http://b.example"}
UrlLists == UNION {[1..n -> ScrapedUrls] : n \in 0..MaxUrls}

\* What a fetch meets: the status of the response, or an exception of
\* session.get or response.text(); and the text of a page, which may be empty
Responses == {"200", "404", "error"}
PageTexts == {"page text", ""}

ScrapeInit ==
    /\ scrape = [NoScrape EXCEPT !.pc = "idle"]
    /\ ManagerIdle /\ ServerIdle /\ EnvIdle /\ GitIdle /\ WritersIdle /\ LaunchIdle /\ FreshIdle

\* _scrape_with_aiohttp down to the loop over as_completed: the semaphore,
\* and a task for each url
ScrapeUrls ==
    /\ scrape.pc = "idle"
    /\ \E urls \in UrlLists, max_concurrent \in 1..MaxConcurrent :
        scrape' = [pc |-> "gathering", urls |-> urls,
                   max_concurrent |-> max_concurrent,
                   semaphore |-> max_concurrent,
                   task |-> [i \in 1..Len(urls) |-> "created"],
                   fetched |-> [i \in 1..Len(urls) |-> 0],
                   content |-> [i \in 1..Len(urls) |-> PyNone],
                   completed |-> <<>>, awaited |-> 0, results |-> EmptyMap]
    /\ UNCHANGED notScrape

\* A task entering the semaphore whatever its value
AcquireUnbounded ==
    /\ \E i \in DOMAIN scrape.task :
        /\ scrape.task[i] = "created"
        /\ scrape' = [scrape EXCEPT !.semaphore = @ - 1,
                                    !.task[i] = "fetching",
                                    !.fetched[i] = @ + 1]
    /\ UNCHANGED notScrape

\* _fetch_url: async with semaphore is entered and session.get(url) is sent
Acquire ==
    /\ \E i \in DOMAIN scrape.task :
        /\ scrape.task[i] = "created"
        /\ scrape.semaphore > 0
        /\ scrape' = [scrape EXCEPT !.semaphore = @ - 1,
                                    !.task[i] = "fetching",
                                    !.fetched[i] = @ + 1]
    /\ UNCHANGED notScrape

\* _fetch_url: the response is there, or an exception is caught; the task
\* returns (url, text) or (url, None) and the semaphore is left
FetchCompletes ==
    /\ \E i \in DOMAIN scrape.task, response \in Responses, text \in PageTexts :
        /\ scrape.task[i] = "fetching"
        /\ scrape' = [scrape EXCEPT
                        !.semaphore = @ + 1,
                        !.task[i] = "done",
                        !.content[i] = IF response = "200" THEN PyStr(text) ELSE PyNone,
                        !.completed = Append(@, i)]
    /\ UNCHANGED notScrape

\* for coro in as_completed(tasks): url, content = await coro;
\* if content: results[url] = content
AwaitNext ==
    /\ scrape.pc = "gathering"
    /\ scrape.awaited < Len(scrape.completed)
    /\ LET i == scrape.completed[scrape.awaited + 1] IN
        scrape' = [scrape EXCEPT
                    !.awaited = @ + 1,
                    !.results = IF Truthy(scrape.content[i])
                                THEN Put(@, scrape.urls[i], scrape.content[i].v)
                                ELSE @]
    /\ UNCHANGED notScrape

\* return results, every task having been awaited
ReturnResults ==
    /\ scrape.pc = "gathering"
    /\ scrape.awaited = Len(scrape.urls)
    /\ scrape' = [scrape EXCEPT !.pc = "returned"]
    /\ UNCHANGED notScrape

ScrapeNext ==
    \/ ScrapeUrls
    \/ Acquire
    \/ FetchCompletes
    \/ AwaitNext
    \/ ReturnResults

ScrapeSpec == ScrapeInit /\ [][ScrapeNext]_vars

---------------------------------------------------------------------------

(* save_config followed by the construction of a new instance on the same  *)
(* path, the file being the text yaml.dump writes and yaml.safe_load       *)
(* reads.  The strings of the documents are single words; among them are   *)
(* words a reader of YAML would take for a number, a boolean or null.      *)

RoundTripOptions ==
    { ("host" :> PyStr("localhost")) @@ ("port" :> PyInt(8080)),
      "host" :> PyStr("8080"),
      "host" :> PyStr("true"),
      "host" :> PyStr(""),
      ("ssl_enabled" :> PyBool(TRUE)) @@ ("timeout" :> PyNone) }

Serving(o) ==
    PyDict(("default" :> PyDict("timeout" :> PyInt(30)))
           @@ ("environments" :> PyDict("dev" :> PyDict(
                    "servers" :> PyDict("main" :> PyDict(o))))))

\* The documents the file starts with
RoundTripInitial == {PyDict(EmptyMap), Serving(EmptyMap)}

RoundTripDocuments ==
    RoundTripInitial
    \cup {PyNone, PyDict("default" :> PyNone), Serving("host" :> PyStr("8080"))}
    \cup { PyDict("default" :> PyDict(o)) : o \in RoundTripOptions }

\* An instance has been constructed on the path and holds what it loaded;
\* no other instance has been constructed yet
RoundTripInit ==
    /\ \E d \in RoundTripInitial :
        /\ files = (config_path :> Raw(YamlText(d))) @@ (backup_path :> Missing)
        /\ config = safe_load(YamlText(d))
    /\ fresh = [config |-> NoManager, loaded |-> config]
    /\ result = Called("", "", "", Return(PyNone))
    /\ save = NotSaving
    /\ ServerIdle /\ EnvIdle /\ GitIdle /\ WritersIdle /\ LaunchIdle /\ ScrapeIdle

\* What a save_config call leaves in `save` and `result`; what the files
\* held before the call is not kept here
SaveReturns(c, backup, out) ==
    /\ save' = [save EXCEPT !.config = c, !.backup = backup,
                            !.all_succeeded = @ /\ out.exc = ""]
    /\ result' = Called("save_config", "", "", out)

\* save_config(config, backup) returns: the backup holds the text the file
\* had, the file the text of the document.  An instance constructed before
\* the call is no longer a new one
SaveText ==
    \E c \in RoundTripDocuments, backup \in BOOLEAN :
        /\ files' = (config_path :> Raw(YamlText(c)))
                    @@ (backup_path :> IF backup /\ Exists(files, config_path)
                                       THEN files[config_path]
                                       ELSE files[backup_path])
        /\ SaveReturns(c, backup, Return(PyNone))
        /\ fresh' = [fresh EXCEPT !.config = NoManager]
        /\ UNCHANGED <<config, notFresh>>

\* save_config raises: the backup does not open or is left empty, or the
\* file does not open for writing or is left empty by a dump that fails
SaveTextFails ==
    \E c \in RoundTripDocuments, backup \in BOOLEAN, at \in {"backup", "dump"},
       opened \in BOOLEAN :
        /\ at = "backup" => backup /\ Exists(files, config_path)
        /\ files' =
            IF at = "backup"
            THEN [files EXCEPT ![backup_path] = IF opened THEN Truncated ELSE @]
            ELSE (config_path :> IF opened THEN Truncated ELSE files[config_path])
                 @@ (backup_path :> IF backup /\ Exists(files, config_path)
                                    THEN files[config_path]
                                    ELSE files[backup_path])
        /\ SaveReturns(c, backup, Raise("OSError", ""))
        /\ fresh' = [fresh EXCEPT !.config = NoManager]
        /\ UNCHANGED <<config, notFresh>>

\* ServerConfigManager(config_path): self.config = self._load_config()
ConstructFresh ==
    /\ fresh.config.kind = "unconstructed"
    /\ fresh' = [fresh EXCEPT !.config = safe_load(files[config_path].v)]
    /\ UNCHANGED <<config, result, files, save, notFresh>>

RoundTripNext ==
    \/ SaveText
    \/ SaveTextFails
    \/ ConstructFresh

RoundTripSpec == RoundTripInit /\ [][RoundTripNext]_vars

---------------------------------------------------------------------------

(* Reading a document as the data model describes it: `default` a mapping  *)
(* of options, `environments` a mapping of environment names to records    *)
(* whose `servers` maps server names to mappings of options.  An absent    *)
(* section counts as an empty mapping.                                     *)

Section(obj, key) ==
    IF key \in DOMAIN obj.v THEN obj.v[key] ELSE PyDict(EmptyMap)

HasEnvironments(cfg) ==
    /\ cfg.kind = "dict"
    /\ Section(cfg, "environments").kind = "dict"

Declared(cfg, environment) ==
    /\ HasEnvironments(cfg)
    /\ environment \in DOMAIN Section(cfg, "environments").v

UnknownEnvironment(cfg, environment) ==
    /\ HasEnvironments(cfg)
    /\ environment \notin DOMAIN Section(cfg, "environments").v

HasServers(cfg, environment) ==
    /\ Declared(cfg, environment)
    /\ Section(cfg, "environments").v[environment].kind = "dict"
    /\ Section(Section(cfg, "environments").v[environment], "servers").kind = "dict"

ServersOf(cfg, environment) ==
    Section(Section(cfg, "environments").v[environment], "servers").v

UnknownServer(cfg, environment, server_name) ==
    /\ HasServers(cfg, environment)
    /\ server_name \notin DOMAIN ServersOf(cfg, environment)

\* The pair is declared, and its two sections are mappings
Resolvable(cfg, environment, server_name) ==
    /\ HasServers(cfg, environment)
    /\ server_name \in DOMAIN ServersOf(cfg, environment)
    /\ ServersOf(cfg, environment)[server_name].kind = "dict"
    /\ Section(cfg, "default").kind = "dict"

DefaultOf(cfg) == Section(cfg, "default").v
OverrideOf(cfg, environment, server_name) == ServersOf(cfg, environment)[server_name].v

\* The last call was op, on a pair that resolves
Resolved(op) ==
    /\ result.op = op
    /\ Resolvable(config, result.environment, result.server_name)

---------------------------------------------------------------------------
(* Resolution *)

\* C1: for a declared (environment, server) pair of a document shaped as the
\* data model has it (`default` and the server's section are mappings),
\* get_server_config returns a mapping whose keys are exactly those of
\* `default` and of the server's section together; a key of the server's
\* section carries the server's value, every other key the default's.
C1_MergeIsOverlay ==
    Resolved("get_server_config") =>
        LET d == DefaultOf(config)
            o == OverrideOf(config, result.environment, result.server_name)
            out == result.out
        IN  /\ out.exc = ""
            /\ out.val.kind = "dict"
            /\ DOMAIN out.val.v = DOMAIN d \cup DOMAIN o
            /\ \A k \in DOMAIN o : out.val.v[k] = o[k]
            /\ \A k \in DOMAIN d \ DOMAIN o : out.val.v[k] = d[k]

\* A resolved pair whose server overrides one default option with another
\* value and leaves another default option alone
C1_Witness ==
    /\ Resolved("get_server_config")
    /\ LET d == DefaultOf(config)
           o == OverrideOf(config, result.environment, result.server_name)
       IN  /\ \E k \in DOMAIN d \cap DOMAIN o : d[k] # o[k]
           /\ DOMAIN d \ DOMAIN o # {}
           /\ result.out.exc = ""

\* C2: when `default` and the server's section both define `middleware`,
\* the resolved `middleware` is the server's list, element for element.
C2_MiddlewareReplaced ==
    Resolved("get_server_config") =>
        LET d == DefaultOf(config)
            o == OverrideOf(config, result.environment, result.server_name)
        IN  ("middleware" \in DOMAIN d /\ "middleware" \in DOMAIN o) =>
                /\ result.out.exc = ""
                /\ result.out.val.v["middleware"] = o["middleware"]

\* Both sections define `middleware`, with different lists
C2_Witness ==
    /\ Resolved("get_server_config")
    /\ LET d == DefaultOf(config)
           o == OverrideOf(config, result.environment, result.server_name)
       IN  /\ "middleware" \in DOMAIN d
           /\ "middleware" \in DOMAIN o
           /\ d["middleware"] # o["middleware"]
           /\ result.out.val.v["middleware"] = o["middleware"]

---------------------------------------------------------------------------
(* Validation *)

\* The resolved config the last call was about
ResolvedConfig ==
    get_server_config(config, result.environment, result.server_name).val.v

\* The last call was validate_config on a pair that resolves, and it returned
Validated ==
    /\ Resolved("validate_config")
    /\ result.out.exc = ""

Errors == result.out.val.v

Count(message, q) == Cardinality({n \in DOMAIN q : q[n] = message})

InvalidPort(c) == "Invalid port number: " \o Format(OptionGet(c, "port"))
InvalidWorkers(c) == "Invalid number of workers: " \o Format(OptionGet(c, "workers"))
InvalidTimeout(c) == "Invalid timeout: " \o Format(OptionGet(c, "timeout"))
NoSslCert == "SSL enabled but ssl_cert not specified"
NoSslKey == "SSL enabled but ssl_key not specified"

\* Every message validate_config has for the config c, in the order of its rules
MessageOrder(c) ==
    << "Missing required field: host",
       "Missing required field: port",
       "Missing required field: workers",
       "Missing required field: timeout",
       NoSslCert,
       NoSslKey,
       InvalidPort(c),
       InvalidWorkers(c),
       InvalidTimeout(c) >>

\* C4: validate_config never signals an error to its caller: whatever the
\* loaded document and the pair asked for, it returns a list.
C4_NeverRaises ==
    result.op = "validate_config" =>
        /\ result.out.exc = ""
        /\ result.out.val.kind = "list"

\* C5: when the pair does not resolve (unknown environment, or unknown
\* server), validate_config returns the list of one element, the lookup
\* error's message.
C5_LookupFailureIsOneError ==
    result.op = "validate_config" =>
        LET environment == result.environment
            server_name == result.server_name
        IN  /\ UnknownEnvironment(config, environment) =>
                /\ result.out.exc = ""
                /\ result.out.val = PyList(<<EnvironmentNotFound(environment)>>)
            /\ UnknownServer(config, environment, server_name) =>
                /\ result.out.exc = ""
                /\ result.out.val = PyList(<<ServerNotFound(server_name, environment)>>)

\* An unknown server in a declared environment, reported as the one error
C5_Witness ==
    /\ result.op = "validate_config"
    /\ UnknownServer(config, result.environment, result.server_name)
    /\ Errors = <<ServerNotFound(result.server_name, result.environment)>>

\* C6: the list validate_config returns is ordered: the missing-field
\* messages in the order host, port, workers, timeout, then the ssl_cert
\* message, the ssl_key message, the invalid-port message, the
\* invalid-workers message and the invalid-timeout message; it holds each
\* message at most once and no other message.
C6_ErrorsInRuleOrder ==
    Validated =>
        Errors = SelectSeq(MessageOrder(ResolvedConfig),
                           LAMBDA message : InSeq(message, Errors))

\* A config without `port` and with workers = 0
C6_Witness ==
    /\ Validated
    /\ "port" \notin DOMAIN ResolvedConfig
    /\ OptionGet(ResolvedConfig, "workers") = PyInt(0)
    /\ Errors = <<"Missing required field: port", "Invalid number of workers: 0">>

\* C7: validate_config returns the empty list only for a pair that resolves
\* to a config holding host, port, workers and timeout; and it returns the
\* empty list whenever those four are present, 1 <= port <= 65535,
\* workers >= 1, timeout >= 1 and ssl_enabled is absent or falsy.
C7_EmptyListMeansValid ==
    result.op = "validate_config" =>
        /\ (result.out.exc = "" /\ Errors = <<>>) =>
                /\ Resolvable(config, result.environment, result.server_name)
                /\ {"host", "port", "workers", "timeout"} \subseteq DOMAIN ResolvedConfig
        /\ Resolvable(config, result.environment, result.server_name) =>
            LET c == ResolvedConfig IN
            ( /\ {"host", "port", "workers", "timeout"} \subseteq DOMAIN c
              /\ IsNumber(c["port"]) /\ 1 <= Number(c["port"]) /\ Number(c["port"]) <= 65535
              /\ IsNumber(c["workers"]) /\ Number(c["workers"]) >= 1
              /\ IsNumber(c["timeout"]) /\ Number(c["timeout"]) >= 1
              /\ ("ssl_enabled" \in DOMAIN c => ~Truthy(c["ssl_enabled"])) )
            => (result.out.exc = "" /\ Errors = <<>>)

\* The four fields present and in range, and the empty list returned
C7_Witness ==
    /\ Validated
    /\ {"host", "port", "workers", "timeout"} \subseteq DOMAIN ResolvedConfig
    /\ Errors = <<>>

C9_WorkersAndTimeoutAtLeastOne ==
    Validated =>
        LET c == ResolvedConfig IN
        /\ ("workers" \in DOMAIN c /\ IsNumber(c["workers"])) =>
              (InSeq(InvalidWorkers(c), Errors) <=> Number(c["workers"]) < 1)
        /\ ("timeout" \in DOMAIN c /\ IsNumber(c["timeout"])) =>
              (InSeq(InvalidTimeout(c), Errors) <=> Number(c["timeout"]) < 1)

\* workers = 0 is reported while timeout = 1 is not
C9_Witness ==
    /\ Validated
    /\ OptionGet(ResolvedConfig, "workers") = PyInt(0)
    /\ OptionGet(ResolvedConfig, "timeout") = PyInt(1)
    /\ InSeq("Invalid number of workers: 0", Errors)
    /\ ~InSeq("Invalid timeout: 1", Errors)

\* C10: with ssl_enabled truthy, the list holds the ssl_cert message once if
\* ssl_cert is absent and the ssl_key message once if ssl_key is absent,
\* each whatever the other; with ssl_enabled absent or falsy it holds
\* neither message.
C10_SslMessages ==
    Validated =>
        LET c == ResolvedConfig
            enabled == "ssl_enabled" \in DOMAIN c /\ Truthy(c["ssl_enabled"])
        IN  /\ Count(NoSslCert, Errors)
                = (IF enabled /\ "ssl_cert" \notin DOMAIN c THEN 1 ELSE 0)
            /\ Count(NoSslKey, Errors)
                = (IF enabled /\ "ssl_key" \notin DOMAIN c THEN 1 ELSE 0)

\* SSL enabled with a certificate and no key: the key alone is reported
C10_Witness ==
    /\ Validated
    /\ OptionGet(ResolvedConfig, "ssl_enabled") = PyBool(TRUE)
    /\ "ssl_cert" \in DOMAIN ResolvedConfig
    /\ "ssl_key" \notin DOMAIN ResolvedConfig
    /\ InSeq(NoSslKey, Errors)
    /\ ~InSeq(NoSslCert, Errors)

---------------------------------------------------------------------------
(* Saving and loading *)

\* The last call was save_config, and it returned
Saved ==
    /\ save.pc = "idle"
    /\ result.op = "save_config"
    /\ result.out.exc = ""

\* The call of save_config, under way or the last one made, takes a backup
BacksUp == save.backup /\ Exists(save.before, config_path)

\* A text with every line ending written as '\n'
UnixLineEndings(content) ==
    IF content.kind = "yaml" THEN [content EXCEPT !.eol = "lf"] ELSE content

\* C11: save_config(config, backup=True) on an existing file first makes
\* `.bak` identical to the content the file had when the call began, the
\* file being untouched until then, and only afterwards overwrites the file;
\* after a successful call the file holds the new document and `.bak` the
\* content the file had before the call.
C11_BackupThenOverwrite ==
    BacksUp =>
        /\ save.pc \in {"open_backup", "copy", "open"} =>
                files[config_path] = save.before[config_path]
        /\ save.pc \in {"open", "dump"} =>
                files[backup_path] = save.before[config_path]
        /\ Saved =>
                /\ files[config_path] = YamlDump(save.config)
                /\ files[backup_path] = save.before[config_path]

\* C12: if the backup step of save_config fails, the call ends there with an
\* I/O error (OSError), and the configuration file holds what it held before
\* the call; it is not touched while the backup is being made.
C12_FailedBackupLeavesFile ==
    /\ save.pc \in {"open_backup", "copy"} =>
            files[config_path] = save.before[config_path]
    /\ save.backup_failed =>
            /\ save.pc = "idle"
            /\ files[config_path] = save.before[config_path]
            /\ result.op = "save_config" => result.out.exc = "OSError"

\* The copy failed half way: the backup is cut short, the call has raised
C12_Witness ==
    /\ save.backup_failed
    /\ result.op = "save_config"
    /\ result.out.exc = "OSError"
    /\ files[backup_path].kind = "partial"
    /\ files[config_path] = save.before[config_path]
    /\ files[config_path] # YamlDump(save.config)

\* C13 as stated: after successful save_config calls only, each with backup
\* true or false, `.bak`, when it exists, equals the content the file had
\* immediately before the most recent save.
C13_BackupIsPriorContent ==
    (Saved /\ save.all_succeeded /\ Exists(files, backup_path)) =>
        files[backup_path] = save.before[config_path]

\* C13, amended: after a successful save_config called with backup=True on
\* an existing file, `.bak` holds the text the file had immediately before
\* that call, its line endings written as '\n'; after any other successful
\* save_config, `.bak` is as it was before that call.
C13_BackupOfLastBackedUpSave ==
    Saved =>
        IF BacksUp
        THEN files[backup_path] = UnixLineEndings(save.before[config_path])
        ELSE files[backup_path] = save.before[backup_path]

\* A save without backup after one with: `.bak` is older than the content
\* the last save replaced
C13_Witness ==
    /\ Saved
    /\ ~save.backup
    /\ Exists(files, backup_path)
    /\ Exists(save.before, config_path)
    /\ files[backup_path] = save.before[backup_path]
    /\ files[backup_path] # UnixLineEndings(save.before[config_path])

\* C14: once a manager is constructed its document never changes, whatever
\* is called on it: the queries, and save_config with any document.
C14_DocumentFixed ==
    [][config.kind # "unconstructed" => config' = config]_vars

\* A query answered after a save: the file holds another document than the
\* manager, and the answer is the one of the manager's document
C14_Witness ==
    /\ result.op = "get_server_config"
    /\ config.kind # "unconstructed"
    /\ files[config_path].kind = "yaml"
    /\ files[config_path].v # config
    /\ result.out = get_server_config(config, result.environment, result.server_name)
    /\ result.out # get_server_config(files[config_path].v,
                                      result.environment, result.server_name)

\* C17: constructing a manager fails with FileNotFoundError when there is no
\* file at the path and with the YAML error when the file is no YAML; the
\* error reaches the caller, and no manager is produced.
C17_LoadErrorsPropagate ==
    result.op = "__init__" =>
        /\ files[config_path].kind = "missing" =>
                result.out.exc = "FileNotFoundError"
        /\ files[config_path].kind = "invalid" =>
                result.out.exc = "YAMLError"
        /\ result.out.exc # "" <=> config.kind = "unconstructed"

\* The construction on a file that is no YAML
C17_Witness ==
    /\ result.op = "__init__"
    /\ files[config_path].kind = "invalid"
    /\ result.out.exc = "YAMLError"
    /\ config.kind = "unconstructed"

---------------------------------------------------------------------------
(* The command line *)

\* The document the script loads, None when the file does not load
CliDocument ==
    IF files[config_path].kind = "yaml" THEN files[config_path].v ELSE PyNone

\* C16: the script exits with 0 when the command succeeds (for `validate`:
\* when validate_config returns the empty list), and with a non-zero status
\* when validate_config returns errors, when the environment or the server
\* is unknown, or when the configuration file does not load.
C16_ExitStatus ==
    result.op \in Commands \ {""} =>
        LET command == result.op
            environment == result.environment
            server_name == result.server_name
            doc == CliDocument
            status == ExitStatus(result.out)
            errors == validate_config(doc, environment, server_name)
        IN  /\ files[config_path].kind \in {"missing", "invalid"} => status # 0
            /\ files[config_path].kind = "yaml" =>
                /\ (command # "list-environments"
                        /\ UnknownEnvironment(doc, environment)) => status # 0
                /\ (command \in {"get-config", "validate"}
                        /\ UnknownServer(doc, environment, server_name)) => status # 0
                /\ (command = "validate" /\ errors.exc = ""
                        /\ errors.val.v # <<>>) => status # 0
                /\ (command = "validate" /\ errors.exc = ""
                        /\ errors.val.v = <<>>) => status = 0
                /\ (command = "list-environments" /\ HasEnvironments(doc)) => status = 0
                /\ (command = "list-servers" /\ HasServers(doc, environment)) => status = 0
                /\ (command = "get-config"
                        /\ Resolvable(doc, environment, server_name)) => status = 0

\* `validate` on a server that resolves and has an invalid port
C16_Witness ==
    /\ result.op = "validate"
    /\ files[config_path].kind = "yaml"
    /\ Resolvable(CliDocument, result.environment, result.server_name)
    /\ validate_config(CliDocument, result.environment, result.server_name)
            = Return(PyList(<<"Invalid port number: 0">>))
    /\ ExitStatus(result.out) = 1

---------------------------------------------------------------------------
(* MCPServer *)

\* C18: the status is "initialized" after construction, "running" after
\* start() and "stopped" after shutdown(); no other method changes it, and
\* add_middleware puts the middleware after those added before.
C18_Lifecycle ==
    /\ [](/\ server.last.op = "__init__" =>
                (server.status = "initialized" /\ server.middleware = <<>>)
          /\ server.last.op = "start" => server.status = "running"
          /\ server.last.op = "shutdown" => server.status = "stopped")
    /\ [][/\ server'.last.op \notin {"start", "shutdown"} =>
                server'.status = server.status
          /\ server'.last.op = "add_middleware" =>
                (/\ Len(server'.middleware) = Len(server.middleware) + 1
                 /\ \A n \in DOMAIN server.middleware :
                        server'.middleware[n] = server.middleware[n]
                 /\ server'.middleware[Len(server'.middleware)] = server'.last.arg)
          /\ server'.last.op # "add_middleware" =>
                server'.middleware = server.middleware]_vars

\* A route added after shutdown to a server with two middleware: the status
\* is still "stopped" and the middleware are in the order they were added
C18_Witness ==
    /\ server.last.op = "add_route"
    /\ server.status = "stopped"
    /\ server.middleware = <<"SecurityMiddleware", "MetricsMiddleware">>

\* C19: is_configured() is true exactly when the config holds the four keys
\* host, port, workers and timeout, whatever other keys it holds.
C19_IsConfigured ==
    server.last.op = "is_configured" =>
        server.last.val
            = PyBool({"host", "port", "workers", "timeout"} \subseteq DOMAIN server.config)

\* False for a config that lacks one of the four keys and holds another key
C19_Witness ==
    /\ server.last.op = "is_configured"
    /\ DOMAIN server.config = {"host", "port", "workers", "max_requests"}
    /\ server.last.val = PyBool(FALSE)

---------------------------------------------------------------------------
(* env_manager *)

\* C20: switch_environment(env) with no `.env.<env>` file raises
\* FileNotFoundError and changes nothing: `.env` and the backup file are as
\* they were, and no backup file is created.
C20_MissingTargetChangesNothing ==
    ( /\ env_call.op = "switch_environment"
      /\ env_call.before[TargetName(env_call.env_type)].kind = "missing" ) =>
        /\ env_call.out.exc = "FileNotFoundError"
        /\ env_dir = env_call.before

\* A switch to an absent environment where `.env` is a file and an older
\* backup is there: both are as before
C20_Witness ==
    /\ env_call.op = "switch_environment"
    /\ env_call.before[TargetName(env_call.env_type)].kind = "missing"
    /\ env_call.out.exc = "FileNotFoundError"
    /\ env_dir[env_path] = File("CURRENT=true")
    /\ env_dir[BackupName] = File("OLD=true")

\* The last call was a switch_environment that returned
Switched ==
    /\ env_call.op = "switch_environment"
    /\ env_call.out.exc = ""

\* C21: after every successful switch_environment(env), whatever calls came
\* before it, `.env` exists and is a symbolic link that leads to `.env.<env>`,
\* also when `.env` already was a link to `.env.<env>`.
C21_LinkToTarget ==
    Switched =>
        /\ env_dir[env_path] = Link(TargetName(env_call.env_type))
        /\ PathExists(env_dir, env_path)
        /\ Resolve(env_dir, env_path, Cardinality(DOMAIN env_dir))
             = TargetName(env_call.env_type)

\* A successful switch to the environment `.env` was linked to already, after
\* an earlier switch to another one (the backup then holds that one's content)
C21_Witness ==
    /\ Switched
    /\ env_call.before[env_path] = Link(TargetName(env_call.env_type))
    /\ env_call.env_type = "dev"
    /\ env_dir[BackupName] = File("DEV=true")
    /\ env_dir[env_path] = Link(TargetName("dev"))

\* The content a name of the directory leads to
ContentAt(dir, name) == dir[Resolve(dir, name, Cardinality(DOMAIN dir))].v

\* A switch_environment that returns, made where `.env` exists
SwitchReturns ==
    /\ env_call'.op = "switch_environment"
    /\ env_call'.out.exc = ""
    /\ PathExists(env_dir, env_path)

\* C29: after a switch_environment that returned, made where `.env` existed,
\* `.env.backup` holds the content `.env` led to immediately before that
\* switch, whatever calls came earlier; so when a second switch follows a
\* first, the backup holds the content of the first one's environment file
\* and the content the first one had backed up is gone from it, unless the
\* two contents are the same.
C29_BackupOfLastSwitch ==
    /\ [](Switched /\ PathExists(env_call.before, env_path)
            => env_dir[BackupName] = File(ContentAt(env_call.before, env_path)))
    /\ [][Switched /\ SwitchReturns
            => /\ env_dir'[BackupName] = File(env_dir[TargetName(env_call.env_type)].v)
               /\ (env_dir[BackupName].v # env_dir[TargetName(env_call.env_type)].v
                        => env_dir'[BackupName] # env_dir[BackupName])]_vars

\* A second switch has been made: `.env` was a link and the backup held the
\* content `.env` had at first, and now no name of the directory holds it
C29_Witness ==
    /\ Switched
    /\ env_call.before[env_path].kind = "link"
    /\ env_call.before[BackupName] = File("CURRENT=true")
    /\ env_dir[BackupName] = File("DEV=true")
    /\ \A name \in EnvNames : env_dir[name] # File("CURRENT=true")

\* The environments that list_environments shows: every `.env.<name>` but
\* the backup
ListedTypes == EnvTypes \ {"backup"}

\* C30: no call changes an environment file `.env.<name>`; a switch changes
\* nothing but `.env`, which it leaves a link, and `.env.backup`, also when
\* `.env` was a link to an environment file.
C30_EnvironmentFilesKept ==
    [][/\ \A t \in ListedTypes : env_dir'[TargetName(t)] = env_dir[TargetName(t)]
       /\ env_dir'[env_path] # env_dir[env_path] => env_dir'[env_path].kind = "link"]_vars

\* A switch away from the environment file `.env` was linked to: the file is
\* as it was, its content now in the backup as well
C30_Witness ==
    /\ Switched
    /\ env_call.before[env_path] = Link(TargetName("dev"))
    /\ env_call.env_type = "prod"
    /\ env_dir[TargetName("dev")] = File("DEV=true")
    /\ env_dir[BackupName] = File("DEV=true")
    /\ env_dir # env_call.before

---------------------------------------------------------------------------
(* git_automation *)

\* The type the precedence over the whole list gives
TypeByPrecedence(file_list) ==
    LET anyTest == \E i \in 1..Len(file_list) : startswith(file_list[i], "test")
        anyMd == \E i \in 1..Len(file_list) : endswith(file_list[i], ".md")
        anyTools == \E i \in 1..Len(file_list) : startswith(file_list[i], "tools/")
    IN  CHOOSE t \in {"test", "docs", "feat", "chore"} :
            /\ t = "test" <=> anyTest
            /\ t = "docs" <=> (~anyTest /\ anyMd)
            /\ t = "feat" <=> (~anyTest /\ ~anyMd /\ anyTools)
            /\ t = "chore" <=> (~anyTest /\ ~anyMd /\ ~anyTools)

\* C22: create_commit_message takes the commit type by fixed precedence over
\* the whole file list (test, then docs, then feat, else chore); the message
\* starts with "[Cursor] <type>: <message>" and, after the "Changed files:"
\* line, lists every file of the list once, in the order given.
C22_CommitMessage ==
    git.op = "create_commit_message" =>
        LET file_list == git.files.v
            text == git.out.val.v
            lines == SplitLines(text)
            first == "[Cursor] " \o TypeByPrecedence(file_list) \o ": " \o git.message
        IN  /\ git.out.exc = ""
            /\ startswith(text, first)
            /\ Len(lines) = Len(file_list) + 4
            /\ lines[1] = first /\ lines[2] = "" /\ lines[3] = "Changed files:"
            /\ \A i \in 1..Len(file_list) : lines[i + 3] = "- " \o file_list[i]
            /\ lines[Len(lines)] = ""

\* A documentation file listed before a test file: the type is "test", and
\* both are listed in that order
C22_Witness ==
    /\ git.op = "create_commit_message"
    /\ git.files.v = <<"README.md", "tests/test_file.py">>
    /\ git.message = "Update docs"
    /\ git.out.val.v =
        "[Cursor] test: Update docs\n\nChanged files:\n- README.md\n- tests/test_file.py\n"

\* The positions in the commands run where `git add` and `git commit` are
Adds == {i \in 1..Len(git.commands) : SubSeq(git.commands[i].cmd, 1, 2) = <<"git", "add">>}
Commits == {i \in 1..Len(git.commands) : SubSeq(git.commands[i].cmd, 1, 2) = <<"git", "commit">>}

\* C23: commit_changes with a non-empty file list runs `git add <files>` and
\* then `git commit -F <temp file>`, in that order; the commit is never run
\* when the add failed; with an empty file list neither is run.
C23_AddThenCommit ==
    git.op = "commit_changes" =>
        /\ Cardinality(Adds) <= 1 /\ Cardinality(Commits) <= 1
        /\ \A i \in Adds : git.commands[i].cmd = <<"git", "add">> \o git.files.v
        /\ \A i \in Commits :
            /\ git.commands[i].cmd = <<"git", "commit", "-F", temp_file>>
            /\ i - 1 \in Adds
            /\ git.commands[i - 1].ok
        /\ \A i \in Adds : ~git.commands[i].ok => Commits = {} /\ git.pc = "done"
        /\ (git.files.kind = "list" /\ Len(git.files.v) = 0) =>
                Adds = {} /\ Commits = {} /\ git.pc = "done"
        /\ (git.pc = "done" /\ git.out.exc = "" /\ Len(git.files.v) > 0) =>
                Adds # {} /\ Commits # {}

\* The list came from `git status`, the add succeeded and the commit was run
\* after it; and, in another run, the add failed and the call ended there
C23_Witness ==
    /\ git.op = "commit_changes"
    /\ git.pc = "done"
    /\ git.out.exc = ""
    /\ git.commands =
        << [cmd |-> <<"git", "status", "--porcelain">>, ok |-> TRUE],
           [cmd |-> <<"git", "add", "README.md", "random_file.txt">>, ok |-> TRUE],
           [cmd |-> <<"git", "commit", "-F", temp_file>>, ok |-> TRUE] >>
    /\ ~git.temp_file

---------------------------------------------------------------------------
(* Two instances saving at the same time *)

BothSaved == \A w \in Writers : writers.of[w].pc = "done"

\* C24: when two instances on one path each run save_config at the same
\* time, then after both calls the file holds exactly the document of the
\* save that wrote last, in full, never a mixture of the two documents.
C24_LastWriterWins ==
    BothSaved =>
        files[config_path] = Raw(YamlText(writers.of[writers.last].config))

---------------------------------------------------------------------------
(* The server-launch example *)

\* C25: the server is running only if the resolved config holds host, port,
\* workers and timeout; once the wait loop of a running server is left,
\* shutdown is eventually executed, the server is then never running again
\* and the run ends with the status "stopped"; and when the resolution of
\* the config fails, no server is made and the process exits with status 1.
C25_Launch ==
    /\ [](server.status = "running" =>
            /\ launch.resolved.exc = ""
            /\ server.config = launch.resolved.val.v
            /\ RequiredKeys \subseteq DOMAIN server.config)
    /\ (launch.pc = "finally" ~> server.status = "stopped")
    /\ [][server.status = "stopped" => server'.status = "stopped"]_vars
    /\ [](launch.pc = "exited" => server.status \in {"none", "initialized", "stopped"})
    /\ [](launch.resolved.exc # "" =>
            server = NoServer /\ launch.pc = "exited" /\ ExitStatus(launch.out) = 1)

\* A run that resolved a config with middleware, started the server, was
\* interrupted and ended with the server stopped
C25_Witness ==
    /\ launch.pc = "exited"
    /\ launch.resolved.exc = ""
    /\ server.status = "stopped"
    /\ server.middleware = <<"SecurityMiddleware", "MetricsMiddleware">>
    /\ DOMAIN server.routes = {"/health", "/echo"}
    /\ launch.cause = "CancelledError"

---------------------------------------------------------------------------
(* web_scraper *)

\* The tasks whose fetch is in progress
Fetching == {i \in DOMAIN scrape.task : scrape.task[i] = "fetching"}

\* C26: in scrape_urls no more than max_concurrent fetches are in progress
\* at any time; every url of the input is fetched once; a fetch that fails or
\* answers with another status than 200 does not keep the others from being
\* made; the call returns when all fetches have completed, not before; and the
\* result maps exactly the urls a fetch of which gave a text that is not empty.
C26_BoundedFetches ==
    scrape.pc \in {"gathering", "returned"} =>
        /\ Cardinality(Fetching) <= scrape.max_concurrent
        /\ \A i \in DOMAIN scrape.urls : scrape.fetched[i] <= 1
        /\ scrape.pc = "gathering" => ENABLED ScrapeNext
        /\ scrape.pc = "returned" =>
            /\ \A i \in DOMAIN scrape.urls :
                scrape.task[i] = "done" /\ scrape.fetched[i] = 1
            /\ DOMAIN scrape.results =
                {scrape.urls[i] : i \in {j \in DOMAIN scrape.urls :
                    scrape.content[j].kind = "str" /\ scrape.content[j].v # ""}}
            /\ \A u \in DOMAIN scrape.results : scrape.results[u] = "page text"

\* Three urls with two fetches at a time: the second fetch completed before
\* the first, which failed; the third gave an empty text; the call returned
\* the text of the second alone
C26_Witness ==
    /\ scrape.pc = "returned"
    /\ scrape.max_concurrent = 2
    /\ scrape.urls = <<"http://a.example", "http://b.example", "http://a.example">>
    /\ scrape.completed = <<2, 1, 3>>
    /\ scrape.content[1].kind = "none"
    /\ scrape.content[3] = PyStr("")
    /\ scrape.results = ("http://b.example" :> "page text")

---------------------------------------------------------------------------
(* Validation: how many errors *)

\* How the message of an invalid value of the field begins
InvalidPrefix(field) ==
    CASE field = "port" -> "Invalid port number: "
      [] field = "workers" -> "Invalid number of workers: "
      [] field = "timeout" -> "Invalid timeout: "

\* C27: for each of port, workers and timeout, the list validate_config
\* returns never holds both the field's "Missing required field" message and
\* the field's message of an invalid value; the list of a pair that resolves
\* has at most six elements.
C27_MissingExcludesInvalid ==
    Validated =>
        /\ \A field \in {"port", "workers", "timeout"} :
            ~ ( /\ InSeq("Missing required field: " \o field, Errors)
                /\ \E n \in DOMAIN Errors : startswith(Errors[n], InvalidPrefix(field)) )
        /\ Len(Errors) <= 6

\* Six errors: host is missing, port, workers and timeout are invalid, and
\* SSL is enabled without certificate and key
C27_Witness ==
    /\ Validated
    /\ Len(Errors) = 6
    /\ Errors[1] = "Missing required field: host"
    /\ InSeq("Invalid port number: 0", Errors)
    /\ InSeq("Invalid number of workers: 0", Errors)
    /\ InSeq("Invalid timeout: 0", Errors)

---------------------------------------------------------------------------
(* Saving, then loading *)

SavedAndLoaded ==
    /\ result.op = "save_config"
    /\ result.out.exc = ""
    /\ fresh.config.kind # "unconstructed"

\* C28: after a save_config(c) that returned, an instance constructed on
\* the same path holds a document equal to c and resolves every server as c
\* does, and the instance that saved still holds, and resolves from, the
\* document it loaded when it was constructed
C28_RoundTrip ==
    /\ SavedAndLoaded =>
        /\ fresh.config = save.config
        /\ \A e \in EnvironmentNames, s \in ServerNames \cup {"api"} :
            get_server_config(fresh.config, e, s) = get_server_config(save.config, e, s)
    /\ config = fresh.loaded
    /\ \A e \in EnvironmentNames, s \in ServerNames \cup {"api"} :
        get_server_config(config, e, s) = get_server_config(fresh.loaded, e, s)

\* A string that reads like a number was saved, over another document, and
\* a new instance resolves the server to it
C28_Witness ==
    /\ SavedAndLoaded
    /\ save.config # config
    /\ get_server_config(fresh.config, "dev", "main")
        = Return(PyDict(("host" :> PyStr("8080")) @@ ("timeout" :> PyInt(30))))

=============================================================================
